---- MODULE Spec2Model ----
(***************************************************************************)
(* Model of the land-classification dashboard's server side:               *)
(*   - the Earth Engine session guard of lib/earthEngine                   *)
(*     (isInitialized, initializeEarthEngine, ensureInitialized);          *)
(*   - the AGB endpoint (app/api/agb/route.ts): request validation, the    *)
(*     two concurrent per-date computations, change analysis;              *)
(*   - the multi-sensor statistics endpoint (app/api/satellite);           *)
(*   - the land-cover endpoint (app/api/classify) and the tile URL        *)
(*     functions (getVisualizationUrl, getImageUrl).                       *)
(*                                                                         *)
(* Numbers.  Dates are whole days (the request carries ISO dates, parsed   *)
(* as UTC midnight; the server clock is UTC).  Band values and biomass    *)
(* are fixed point: "milli" is 1/1000 of the unit, "centi" 1/100.          *)
(***************************************************************************)
EXTENDS Integers, Sequences, FiniteSets, TLC

\* ------------------------------------------------------------------ bounds
\* Concurrent callers of ensureInitialized in SpecInit.
NumCallers == 2
\* Calls of ensureInitialized each caller makes in SpecInit.
MaxCalls == 2
\* Polygons the user draws on the map in SpecPage.
NumPolygons == 2
\* Analyses the home page starts in SpecPage.
MaxAnalyses == 3

\* ------------------------------------------------- numbers and rounding
\* n / d rounded to the nearest integer, halves away from zero (d > 0):
\* Number.prototype.toFixed at the model's resolution.
RoundHalfUp(n, d) == IF 2 * (n % d) >= d THEN (n \div d) + 1 ELSE n \div d
RoundDiv(n, d) == IF n >= 0 THEN RoundHalfUp(n, d) ELSE -RoundHalfUp(-n, d)

\* parseFloat(x.toFixed(2)) of a value given in milli, as centi.
ToFixed2(milli) == RoundDiv(milli, 10)

RECURSIVE SumSeq(_)
SumSeq(s) == IF s = <<>> THEN 0 ELSE Head(s) + SumSeq(Tail(s))

MinOf(S) == CHOOSE x \in S : \A y \in S : x <= y
MaxOf(S) == CHOOSE x \in S : \A y \in S : x >= y

\* ------------------------------------------- app/api/agb/route.ts: constants
\* REGRESSION_COEFFICIENTS
Intercept == -150
CoefNdvi == 200
CoefEvi == 150
CoefVh == -20
CoefRvi == 50
CoefCanopyHeight == 15
\* agb.clamp(0, 500)
ClampMin == 0
ClampMax == 500
\* findClosestDataWindow: weeksWindow * 7 days, maxMonthsSearch * 4 weeks,
\* called with maxMonthsSearch = 3
DaysPerWeek == 7
WeeksPerMonth == 4
MaxMonthsSearch == 3
\* yearsDifference = daysDifference / 365.25, as days per 100 years
DaysPerCentury == 36525

\* ------------------------------------------------------------- state
CredentialNames == {"privateKey", "serviceAccount", "projectId"}
RequiredFields == {"geometry", "startDate", "endDate"}
DateIds == {"start", "end"}
Callers == {ToString(i) : i \in 1..NumCallers}
Tasks == DateIds \cup {"sat", "cls"} \cup Callers
NodeEnvs == {"production", "development"}

VARIABLES
    isInitialized,  \* lib/earthEngine: let isInitialized = false
    credentials,    \* the credential environment variables that are set
    initPc,         \* per task: where its initializeEarthEngine promise stands
    attempts,       \* authenticate+initialize sequences started so far
    callerPc,       \* SpecInit: each caller's position
    calls,          \* SpecInit: ensureInitialized calls made by each caller
    scenes,         \* days with a Sentinel-2 scene over the polygon, cloud < 30 %
                    \* (classify: days with a Dynamic World image)
    endpoint,       \* the route the request is sent to
    body,           \* the request body
    response,       \* the HTTP response; status 0 while none was produced
    remoteCalled,   \* a remote-service call was issued for the request
    calc,           \* agb: the two calculateAGBForDate calls
    sat,            \* satellite: the handler's position and locals
    nodeEnv,        \* process.env.NODE_ENV
    cls,            \* classify: the handler's position and locals
    tile,           \* a tile URL function's getMap callback and its outcome
    page            \* app/page.tsx: the state of Home and its running analyses

initVars == <<isInitialized, credentials, initPc, attempts>>
callerVars == <<callerPc, calls>>
serverVars == <<scenes, endpoint, body, response, remoteCalled, calc, sat,
                nodeEnv, cls, tile>>
requestVars == <<scenes, endpoint, body, response, remoteCalled, calc, sat,
                 nodeEnv, cls, tile, page>>
vars == <<isInitialized, credentials, initPc, attempts, callerPc, calls,
          scenes, endpoint, body, response, remoteCalled, calc, sat,
          nodeEnv, cls, tile, page>>

\* ------------------------------------------------- remote platform: images
\* An image is a sequence of pixels; a pixel maps each band that has data
\* there to its value in milli.  A band without data at a pixel is masked.
Restrict(px, B) == [b \in (DOMAIN px) \cap B |-> px[b]]

\* What the platform holds for one date window: the pixels of the median
\* composites over the polygon, the Sentinel-1 scene count and the GEDI
\* footprint count.  Radar bands exist only with Sentinel-1 scenes, canopy
\* height only at pixels with a footprint.
Forest ==
    [pixels |-> << [NDVI |-> 800, EVI |-> 500, LAI |-> 1691, VV |-> -8000,
                    VH |-> -14000, RVI |-> 2545, CanopyHeight |-> 25000] >>,
     s1Images |-> 4, gediFootprints |-> 3]
Bare ==
    [pixels |-> << [NDVI |-> 100, EVI |-> 50, LAI |-> 63, VV |-> -3000,
                    VH |-> -2000, RVI |-> 1600] >>,
     s1Images |-> 2, gediFootprints |-> 0]
Mixed ==
    [pixels |-> << [NDVI |-> 600, EVI |-> 400, LAI |-> 1329, VV |-> -10000,
                    VH |-> -6000, RVI |-> 1500, CanopyHeight |-> 5000],
                   [NDVI |-> 300, EVI |-> 200, LAI |-> 606, VV |-> -9000,
                    VH |-> -3000, RVI |-> 1000] >>,
     s1Images |-> 3, gediFootprints |-> 1]
NoRadar ==
    [pixels |-> << [NDVI |-> 700, EVI |-> 450, LAI |-> 1510,
                    CanopyHeight |-> 12000] >>,
     s1Images |-> 0, gediFootprints |-> 2]
Grounds == {Forest, Bare, Mixed, NoRadar}

\* image.select(band): per pixel the set holding the value, empty if masked.
SelectBand(image, band) ==
    [i \in DOMAIN image |->
        IF band \in DOMAIN image[i] THEN {image[i][band]} ELSE {}]

\* reduceRegion(mean, minMax).evaluate over a one-band image: masked pixels
\* are left out; with no pixel left the result's entries are null (absent
\* here).  The mean is given to the nearest milli.
ReduceRegion(band) ==
    LET valid == SelectSeq(band, LAMBDA s : s # {})
        vals == [i \in DOMAIN valid |-> CHOOSE v \in valid[i] : TRUE]
        S == {vals[i] : i \in DOMAIN vals}
    IN  IF Len(vals) = 0 THEN [pixels |-> 0]
        ELSE [pixels |-> Len(vals),
              mean |-> RoundDiv(SumSeq(vals), Len(vals)),
              min |-> MinOf(S), max |-> MaxOf(S)]

\* filterDate(start, end) on the scene calendar, then size(): the start day
\* is included, the end day is not.
CollectionSize(S, start, end) == Cardinality({d \in S : start <= d /\ d < end})

\* Mutant of HarmonizedBands: the canopy height band is always added.
HarmonizedBands_WithHeight(hasCanopyHeight) ==
    {"NDVI", "EVI", "LAI", "VV", "VH", "RVI", "CanopyHeight"}

\* ------------------------------------------- app/api/agb/route.ts: functions
\* harmonizeResolution: NDVI, EVI, LAI of Sentinel-2, VV, VH, RVI of
\* Sentinel-1, and CanopyHeight only if hasCanopyHeight.
HarmonizedBands(hasCanopyHeight) ==
    {"NDVI", "EVI", "LAI", "VV", "VH", "RVI"}
        \cup (IF hasCanopyHeight THEN {"CanopyHeight"} ELSE {})

harmonizeResolution(pixels, hasCanopyHeight) ==
    [i \in DOMAIN pixels |-> Restrict(pixels[i], HarmonizedBands(hasCanopyHeight))]

\* The bands the regression expression of calculateAGB reads.
RegressionBands(hasCanopyHeight) ==
    {"NDVI", "EVI", "VH", "RVI"}
        \cup (IF hasCanopyHeight THEN {"CanopyHeight"} ELSE {})

\* The regression expression at one pixel, in milli t/ha (coefficients are
\* whole numbers, band values milli).
Regression(px, hasCanopyHeight) ==
    Intercept * 1000 + CoefNdvi * px.NDVI + CoefEvi * px.EVI
        + CoefVh * px.VH + CoefRvi * px.RVI
        + (IF hasCanopyHeight THEN CoefCanopyHeight * px.CanopyHeight ELSE 0)


\* Mutant of Clamp: no clamp.
Clamp_None(x) == x

\* .clamp(0, 500)
Clamp(x) ==
    IF x < ClampMin * 1000 THEN ClampMin * 1000
    ELSE IF x > ClampMax * 1000 THEN ClampMax * 1000 ELSE x

\* calculateAGB: the one-band AGB image; a pixel is masked where a band the
\* expression reads is masked.
calculateAGB(harmonizedImage, hasCanopyHeight) ==
    [i \in DOMAIN harmonizedImage |->
        IF RegressionBands(hasCanopyHeight) \subseteq DOMAIN harmonizedImage[i]
        THEN [AGB |-> Clamp(Regression(harmonizedImage[i], hasCanopyHeight))]
        ELSE << >>]

\* result[key] || 0
OrZero(result, key) == IF key \in DOMAIN result THEN result[key] ELSE 0

\* calculateImageStatistics: mean, min, max of one band, in milli (stdDev
\* is not modelled).
calculateImageStatistics(image, bandName) ==
    LET result == ReduceRegion(SelectBand(image, bandName))
    IN  [mean |-> OrZero(result, "mean"),
         min |-> OrZero(result, "min"),
         max |-> OrZero(result, "max")]


\* Mutant of WindowStart: the start goes back weeksWindow days, not weeks.
WindowStart_Days(target, weeksWindow) == target - weeksWindow

\* Mutant of MonthsUsed: the weeks are rounded down to months.
MonthsUsed_Floor(weeksWindow) == weeksWindow \div WeeksPerMonth

\* findClosestDataWindow: the window of weeksWindow, the loop bound and
\* monthsUsed = Math.ceil(weeksWindow / 4).
WindowStart(target, weeksWindow) == target - weeksWindow * DaysPerWeek
WindowEnd(target, weeksWindow) == target + weeksWindow * DaysPerWeek
MaxWeeks(maxMonthsSearch) == maxMonthsSearch * WeeksPerMonth
MonthsUsed(weeksWindow) == (weeksWindow + WeeksPerMonth - 1) \div WeeksPerMonth

\* The date result of calculateAGBForDate (lines 539-595): AGB statistics in
\* centi (toFixed(2)), input metrics in milli (toFixed(3): ndvi, evi, rvi)
\* or centi (toFixed(2): lai, vh, vv, canopyHeight).
Fixed3(stats) == [mean |-> stats.mean, min |-> stats.min, max |-> stats.max]
Fixed2(stats) ==
    [mean |-> ToFixed2(stats.mean), min |-> ToFixed2(stats.min),
     max |-> ToFixed2(stats.max)]
Null == [null |-> TRUE]

DateResult(c) ==
    [meanAGB |-> ToFixed2(c.agbStats.mean),
     minAGB |-> ToFixed2(c.agbStats.min),
     maxAGB |-> ToFixed2(c.agbStats.max),
     inputMetrics |->
        [ndvi |-> Fixed3(c.ndviStats), evi |-> Fixed3(c.eviStats),
         lai |-> Fixed2(c.laiStats), vh |-> Fixed2(c.vhStats),
         vv |-> Fixed2(c.vvStats), rvi |-> Fixed3(c.rviStats),
         canopyHeight |-> IF c.chStats # Null THEN Fixed2(c.chStats) ELSE Null],
     dataQuality |->
        [sentinel2Images |-> c.s2Count, sentinel1Images |-> c.s1Count,
         gediFootprints |-> c.gediCount,
         temporalRange |-> <<c.startDate, c.endDate>>],
     warnings |-> c.warnings,
     actualDateRange |-> [start |-> c.startDate, end |-> c.endDate]]

\* POST, lines 620-633: change analysis over the two date results.
AgbChange(startAGB, endAGB) == endAGB.meanAGB - startAGB.meanAGB


\* Mutant of AgbChangePercent: the ratio is not multiplied by 100.
AgbChangePercent_Fraction(startAGB, endAGB) ==
    IF startAGB.meanAGB > 0
    THEN RoundDiv((endAGB.meanAGB - startAGB.meanAGB) * 100, startAGB.meanAGB)
    ELSE 0

\* agbChangePercent after toFixed(2), in centi percent.
AgbChangePercent(startAGB, endAGB) ==
    IF startAGB.meanAGB > 0
    THEN RoundDiv(AgbChange(startAGB, endAGB) * 10000, startAGB.meanAGB)
    ELSE 0

\* Math.floor((end.getTime() - start.getTime()) / (1000*60*60*24))
DaysDifference(startDate, endDate) == endDate - startDate


\* Mutant of AnnualAGBChange: a year of 365 days.
AnnualAGBChange_365(startAGB, endAGB, startDate, endDate) ==
    IF endDate - startDate > 0
    THEN RoundDiv((endAGB.meanAGB - startAGB.meanAGB) * 36500,
                  100 * (endDate - startDate))
    ELSE 0

\* annualAGBChange after toFixed(2), in centi: yearsDifference > 0 iff
\* daysDifference > 0, and agbChange / (days / 365.25).
AnnualAGBChange(startAGB, endAGB, startDate, endDate) ==
    IF DaysDifference(startDate, endDate) > 0
    THEN RoundDiv(AgbChange(startAGB, endAGB) * DaysPerCentury,
                  100 * DaysDifference(startDate, endDate))
    ELSE 0


\* Mutant of Status: no change counts as an increase.
Status_NonNegative(agbChange) ==
    IF agbChange >= 0 THEN "Increase" ELSE "Decrease"

Status(agbChange) ==
    IF agbChange > 0 THEN "Increase"
    ELSE IF agbChange < 0 THEN "Decrease" ELSE "No Change"

Interpretation(agbChange) ==
    IF agbChange > 0
    THEN "Forest biomass has increased, indicating growth or afforestation"
    ELSE IF agbChange < 0
    THEN "Forest biomass has decreased, indicating degradation or deforestation"
    ELSE "No significant change in forest biomass"

DateEntry(targetDate, r) ==
    [targetDate |-> targetDate,
     actualDataRange |-> r.actualDateRange,
     agb |-> [meanAGB |-> r.meanAGB, minAGB |-> r.minAGB, maxAGB |-> r.maxAGB],
     inputMetrics |-> r.inputMetrics,
     dataQuality |-> r.dataQuality,
     warnings |-> r.warnings]

\* The success body of POST (lines 635-716).
SuccessData(startDate, endDate, startAGB, endAGB) ==
    [startDate |-> DateEntry(startDate, startAGB),
     endDate |-> DateEntry(endDate, endAGB),
     agbChange |->
        [meanAGBChange |-> AgbChange(startAGB, endAGB),
         percentChange |-> AgbChangePercent(startAGB, endAGB),
         annualAGBChange |-> AnnualAGBChange(startAGB, endAGB, startDate, endDate),
         status |-> Status(AgbChange(startAGB, endAGB)),
         interpretation |-> Interpretation(AgbChange(startAGB, endAGB))],
     timePeriod |->
        [startDate |-> startDate, endDate |-> endDate,
         durationDays |-> DaysDifference(startDate, endDate)]]

\* ------------------------------------------------------- calendar (UTC)
\* Day 0 of the model's day count is 1 January of EpochYear.
EpochYear == 2023
MonthsPerYear == 12

IsLeapYear(y) == (y % 4 = 0 /\ y % 100 # 0) \/ y % 400 = 0

\* Days of calendar month k, counted from January of EpochYear (k may be
\* negative).
DaysInMonth(k) ==
    LET y == EpochYear + (k \div MonthsPerYear)
        m == k % MonthsPerYear
    IN  IF m = 1 THEN (IF IsLeapYear(y) THEN 29 ELSE 28)
        ELSE IF m \in {3, 5, 8, 10} THEN 30 ELSE 31

\* The day number of the first day of month k.
RECURSIVE FirstOfMonth(_)
FirstOfMonth(k) ==
    IF k = 0 THEN 0
    ELSE IF k > 0 THEN FirstOfMonth(k - 1) + DaysInMonth(k - 1)
    ELSE FirstOfMonth(k + 1) - DaysInMonth(k)

\* The months the model's dates lie in, and their first days.
MonthRange == (-2 * MonthsPerYear)..(2 * MonthsPerYear)
MonthStart == [k \in MonthRange |-> FirstOfMonth(k)]

\* The month a day lies in (getMonth, with the year).
MonthOf(day) == MaxOf({k \in MonthRange : MonthStart[k] <= day})

\* d.setMonth(d.getMonth() - months): the same day of the month, `months`
\* months earlier; a day past the end of that month runs over into the
\* next one.
SetMonthBack(day, months) ==
    MonthStart[MonthOf(day) - months] + (day - MonthStart[MonthOf(day)])

\* ------------------------------------------- app/api/classify: class tables
\* LANDCOVER_CLASSES (ESA WorldCover).
LANDCOVER_CLASSES ==
    [v \in {10, 20, 30, 40, 50, 60, 70, 80, 90, 95, 100} |->
        CASE v = 10 -> "Tree cover" [] v = 20 -> "Shrubland"
          [] v = 30 -> "Grassland" [] v = 40 -> "Cropland"
          [] v = 50 -> "Built-up" [] v = 60 -> "Bare / sparse vegetation"
          [] v = 70 -> "Snow and ice" [] v = 80 -> "Permanent water bodies"
          [] v = 90 -> "Herbaceous wetland" [] v = 95 -> "Mangroves"
          [] OTHER -> "Moss and lichen"]

\* classificationData.classes of the Dynamic World branch.
DynamicWorldClasses ==
    [v \in 0..8 |->
        CASE v = 0 -> "Water" [] v = 1 -> "Trees" [] v = 2 -> "Grass"
          [] v = 3 -> "Flooded vegetation" [] v = 4 -> "Crops"
          [] v = 5 -> "Shrub and scrub" [] v = 6 -> "Built"
          [] v = 7 -> "Bare" [] OTHER -> "Snow and ice"]

\* maxMonths of the Dynamic World fallback loop.
MaxMonths == 12

\* classes[classValue] || `Class ${classValue}`
ClassName(classes, classValue) ==
    IF classValue \in DOMAIN classes THEN classes[classValue]
    ELSE "Class " \o ToString(classValue)

\* One entry of processAreaStatistics.  group.sum is in 1/10 m2;
\* areaHectares is given in 1/100 ha, areaSquareMeters in m2 (Math.round).
AreaEntry(group, classes) ==
    [class |-> group.class,
     className |-> ClassName(classes, group.class),
     areaHectares |-> RoundHalfUp(group.sum, 1000),
     areaSquareMeters |-> RoundHalfUp(group.sum, 10)]

\* Mutant of InsertDescending: the entry goes in front.
InsertDescending_Front(e, sorted) == <<e>> \o sorted

\* Array.prototype.sort with (a, b) => b.areaHectares - a.areaHectares is
\* stable: an entry goes behind the entries that are not smaller.
InsertDescending(e, sorted) ==
    LET k == Cardinality({i \in DOMAIN sorted :
                            sorted[i].areaHectares >= e.areaHectares})
    IN  SubSeq(sorted, 1, k) \o <<e>> \o SubSeq(sorted, k + 1, Len(sorted))

RECURSIVE SortDescending(_)
SortDescending(entries) ==
    IF entries = << >> THEN << >>
    ELSE InsertDescending(entries[Len(entries)],
                          SortDescending(SubSeq(entries, 1, Len(entries) - 1)))

\* processAreaStatistics(stats, classes)
processAreaStatistics(stats, classes) ==
    IF "groups" \notin DOMAIN stats THEN << >>
    ELSE SortDescending([i \in DOMAIN stats.groups |->
                            AreaEntry(stats.groups[i], classes)])

\* ---------------------------------------------------- tile URL templates
\* A URL is a sequence of tokens; "{z}", "{x}", "{y}" are the placeholders.
Template == <<"{z}", "/", "{x}", "/", "{y}">>

\* url.includes('{z}')
IncludesZ(url) == \E i \in DOMAIN url : url[i] = "{z}"

\* url.replace(/\/$/, '')
DropTrailingSlash(url) ==
    IF Len(url) > 0 /\ url[Len(url)] = "/" THEN SubSeq(url, 1, Len(url) - 1)
    ELSE url

\* mapId.urlFormat || mapId.url || ''  (an empty string is falsy)
UrlOf(mapId) == IF mapId.urlFormat # << >> THEN mapId.urlFormat ELSE mapId.url

\* The normalisation both functions apply, with their suffix.
NormalizeUrl(url, suffix) ==
    IF ~IncludesZ(url) THEN DropTrailingSlash(url) \o suffix ELSE url

\* getVisualizationUrl (agb route): the getMap callback.
getVisualizationUrl(reply) ==
    IF reply.error THEN [rejected |-> "error"]
    ELSE IF reply.mapId = Null
    THEN [rejected |-> "Failed to get valid map URL"]
    ELSE [resolved |-> NormalizeUrl(UrlOf(reply.mapId), <<"/">> \o Template)]

\* getImageUrl (lib/earthEngine): the getMap callback.
getImageUrl(reply) ==
    IF reply.error THEN [rejected |-> "error"]
    ELSE IF reply.mapId = Null
    THEN [rejected |-> "Failed to get valid map URL from Earth Engine"]
    ELSE [resolved |->
            NormalizeUrl(UrlOf(reply.mapId), <<"/", "tiles", "/">> \o Template)]

\* ------------------------------------------------------------ responses
NoResponse == [status |-> 0]
MissingParameters ==
    [status |-> 400,
     error |-> [kind |-> "MissingParameters", names |-> RequiredFields]]
InternalError(error) == [status |-> 500, error |-> error, details |-> error]
Success(data) == [status |-> 200, success |-> TRUE, data |-> data]

\* Errors.  A remote call's failure, the exhausted window search
\* (`No satellite data found within ${maxMonthsSearch} months of
\* ${targetDate}`), and the credential check of initializeEarthEngine.

\* Mutant of NoDataError: the message carries the weeks tried, not the bound.
NoDataError_Weeks(maxMonthsSearch, targetDate) ==
    [kind |-> "NoData", months |-> maxMonthsSearch * WeeksPerMonth,
     targetDate |-> targetDate]

RemoteError == [kind |-> "RemoteError"]
NoDataError(maxMonthsSearch, targetDate) ==
    [kind |-> "NoData", months |-> maxMonthsSearch, targetDate |-> targetDate]
ConfigError == [kind |-> "GEE credentials not configured"]


\* Mutant of Invalid: only geometry is tested.
Invalid_GeometryOnly(b) == "geometry" \notin b.present

\* !geometry || !startDate || !endDate
Invalid(b) == b.present # RequiredFields

\* A remote call answers with a result only once the Earth Engine session
\* is up; it can fail at any time.
OkReplies == IF isInitialized THEN BOOLEAN ELSE {FALSE}

\* ------------------------------------------- lib/earthEngine: session guard
\* The executor of initializeEarthEngine's promise rejects when a credential
\* is missing.
CredentialsConfigured == credentials = CredentialNames

\* ensureInitialized() up to its first suspension.  "resolved": the flag is
\* set, nothing is started.  "rejected": configuration error.  "pending": an
\* authenticate+initialize sequence was started.
EnsureOutcome ==
    IF isInitialized THEN "resolved"
    ELSE IF ~CredentialsConfigured THEN "rejected"
    ELSE "pending"

\* State change of the ensureInitialized() call of task t.
EnsureInitialized(t) ==
    /\ initPc' = [initPc EXCEPT ![t] =
                    IF EnsureOutcome = "pending" THEN "auth" ELSE "none"]
    /\ attempts' = IF EnsureOutcome = "pending" THEN attempts + 1 ELSE attempts
    /\ UNCHANGED <<isInitialized, credentials>>

\* Mutant of FlagAfterInit: the flag is set whatever ee.initialize reports.
FlagAfterInit_Always(ok) == TRUE

\* The flag after ee.initialize called back with success (ok) or error.
FlagAfterInit(ok) == IF ok THEN TRUE ELSE isInitialized

\* Attempts in flight: promises waiting for authenticate or initialize.
InFlight == {t \in DOMAIN initPc : initPc[t] \in {"auth", "init"}}

\* ------------------------------------------- agb: calculateAGBForDate steps
NoGround == [pixels |-> << >>, s1Images |-> 0, gediFootprints |-> 0]
NoStats == [mean |-> 0, min |-> 0, max |-> 0]
NoGediWarning ==
    "No GEDI canopy height data available for this location and time period. AGB calculated without canopy height component."
GediFailedWarning ==
    "GEDI canopy height data unavailable. AGB calculated without canopy height component."

IdleCalc ==
    [pc |-> "idle", targetDate |-> 0, weeksWindow |-> 0,
     startDate |-> 0, endDate |-> 0, monthsUsed |-> 0,
     ground |-> NoGround, hasCanopyHeight |-> FALSE, warnings |-> << >>,
     outstanding |-> 0, agbStats |-> NoStats,
     ndviStats |-> NoStats, eviStats |-> NoStats, laiStats |-> NoStats,
     vhStats |-> NoStats, vvStats |-> NoStats, rviStats |-> NoStats,
     chStats |-> Null, s2Count |-> 0, s1Count |-> 0, gediCount |-> 0,
     result |-> Null, error |-> Null]

\* Mutant of FailedCalc: the failure is noted and the call is issued again.
FailedCalc_Retry(c, error) == [c EXCEPT !.error = error]

\* A rejected calculateAGBForDate: its locals are gone.
FailedCalc(c, error) ==
    [IdleCalc EXCEPT !.pc = "failed", !.targetDate = c.targetDate,
                     !.error = error]

\* The images of a date computation (lines 454-458).
HarmonizedImage(c) == harmonizeResolution(c.ground.pixels, c.hasCanopyHeight)
AgbImage(c) == calculateAGB(HarmonizedImage(c), c.hasCanopyHeight)

\* Mutant of AgbResponse: a later rejection answers again.
AgbResponse_Overwrite(calc2) ==
    IF \E d \in DateIds : calc2[d].pc = "failed"
    THEN [status |-> 500,
          error |-> (calc2[CHOOSE d \in DateIds : calc2[d].pc = "failed"]).error,
          details |-> (calc2[CHOOSE d \in DateIds : calc2[d].pc = "failed"]).error]
    ELSE IF \A d \in DateIds : calc2[d].pc = "done"
    THEN [status |-> 200, success |-> TRUE,
          data |-> SuccessData(body.startDate, body.endDate,
                               calc2["start"].result, calc2["end"].result)]
    ELSE response

\* Mutant of AgbResponse: a rejection is not caught, nothing is answered.
AgbResponse_NoCatch(calc2) ==
    IF response.status # 0 THEN response
    ELSE IF \A d \in DateIds : calc2[d].pc = "done"
    THEN [status |-> 200, success |-> TRUE,
          data |-> SuccessData(body.startDate, body.endDate,
                               calc2["start"].result, calc2["end"].result)]
    ELSE response

\* POST after Promise.all settles or rejects: the response a step leaves,
\* given the date computations after the step.
AgbResponse(calc2) ==
    IF response.status # 0 THEN response
    ELSE IF \E d \in DateIds : calc2[d].pc = "failed"
    THEN InternalError((calc2[CHOOSE d \in DateIds : calc2[d].pc = "failed"]).error)
    ELSE IF \A d \in DateIds : calc2[d].pc = "done"
    THEN Success(SuccessData(body.startDate, body.endDate,
                             calc2["start"].result, calc2["end"].result))
    ELSE response

\* A step of date computation d that leaves it as c2.
CalcStep(d, c2) ==
    /\ calc' = [calc EXCEPT ![d] = c2]
    /\ response' = AgbResponse([calc EXCEPT ![d] = c2])
    /\ UNCHANGED <<scenes, endpoint, body, remoteCalled, sat, nodeEnv, cls, tile, page>>

\* findClosestDataWindow entered: weeksWindow = 1 and its size() query sent.
StartSearch(targetDate) ==
    [IdleCalc EXCEPT !.pc = "search", !.targetDate = targetDate,
                     !.weeksWindow = 1]

\* POST of the AGB route up to its first suspension: the 400 response, or
\* both calculateAGBForDate calls started (Promise.all).
AgbPost ==
    /\ endpoint = "agb"
    /\ response.status = 0
    /\ \A d \in DateIds : calc[d].pc = "idle"
    /\ IF Invalid(body)
       THEN /\ response' = MissingParameters
            /\ UNCHANGED <<calc, remoteCalled>>
       ELSE /\ calc' = [d \in DateIds |->
                          StartSearch(IF d = "start" THEN body.startDate
                                      ELSE body.endDate)]
            /\ remoteCalled' = TRUE
            /\ UNCHANGED response
    /\ UNCHANGED <<scenes, endpoint, body, sat, nodeEnv, cls, tile, page>>
    /\ UNCHANGED initVars
    /\ UNCHANGED callerVars

\* calculateAGBForDate from the found window to the GEDI size() query:
\* getSentinel2Composite, getSentinel1Composite and getGEDICanopyHeight
\* (each after ensureInitialized), composites built lazily.
AfterWindow(c, ground) ==
    [c EXCEPT !.pc = "gedi", !.ground = ground]

\* What the platform may hold for the window date d found: the same as for
\* the other date if that one found the same window.
GroundsFor(d, c) ==
    LET o == calc[CHOOSE x \in DateIds : x # d]
    IN  IF /\ o.pc \in {"gedi", "area", "agbStats", "metrics", "counts", "url", "done"}
           /\ o.startDate = c.startDate
           /\ o.endDate = c.endDate
        THEN {o.ground}
        ELSE Grounds

\* The window search of date d gets the answer to its size() query.
SearchReply(d) ==
    LET c == calc[d]
        startStr == WindowStart(c.targetDate, c.weeksWindow)
        endStr == WindowEnd(c.targetDate, c.weeksWindow)
        size == CollectionSize(scenes, startStr, endStr)
        found == [c EXCEPT !.startDate = startStr, !.endDate = endStr,
                           !.monthsUsed = MonthsUsed(c.weeksWindow)]
    IN  /\ c.pc = "search"
        /\ \E ok \in OkReplies :
             IF ~ok THEN
                /\ CalcStep(d, FailedCalc(c, RemoteError))
                /\ UNCHANGED initVars
             ELSE IF size > 0 THEN
                \* return the window; getSentinel2Composite awaits
                \* ensureInitialized
                /\ EnsureInitialized(d)
                /\ CASE EnsureOutcome = "resolved" ->
                          \E ground \in GroundsFor(d, found) :
                              CalcStep(d, AfterWindow(found, ground))
                     [] EnsureOutcome = "rejected" ->
                          CalcStep(d, FailedCalc(c, ConfigError))
                     [] OTHER ->
                          CalcStep(d, [found EXCEPT !.pc = "init"])
             ELSE IF c.weeksWindow < MaxWeeks(MaxMonthsSearch) THEN
                /\ CalcStep(d, [c EXCEPT !.weeksWindow = @ + 1])
                /\ UNCHANGED initVars
             ELSE
                /\ CalcStep(d, FailedCalc(c, NoDataError(MaxMonthsSearch, c.targetDate)))
                /\ UNCHANGED initVars
        /\ UNCHANGED callerVars


\* Mutant of AfterGedi: zero footprints warn but keep the canopy height.
AfterGedi_KeepsHeight(c, failed, gediSize) ==
    IF failed
    THEN [c EXCEPT !.warnings = Append(@, GediFailedWarning),
                   !.hasCanopyHeight = FALSE]
    ELSE IF gediSize = 0
    THEN [c EXCEPT !.warnings = Append(@, NoGediWarning),
                   !.hasCanopyHeight = TRUE]
    ELSE [c EXCEPT !.hasCanopyHeight = TRUE]

\* Mutant of AfterGedi: a failed check is swallowed without a warning.
AfterGedi_SilentFailure(c, failed, gediSize) ==
    IF failed
    THEN [c EXCEPT !.hasCanopyHeight = FALSE]
    ELSE IF gediSize = 0
    THEN [c EXCEPT !.warnings = Append(@, NoGediWarning),
                   !.hasCanopyHeight = FALSE]
    ELSE [c EXCEPT !.hasCanopyHeight = TRUE]

\* Lines 438-450: the availability check's outcome.  gediSize is the
\* size() answer, `failed` a rejected check (caught).
AfterGedi(c, failed, gediSize) ==
    IF failed
    THEN [c EXCEPT !.warnings = Append(@, GediFailedWarning),
                   !.hasCanopyHeight = FALSE]
    ELSE IF gediSize = 0
    THEN [c EXCEPT !.warnings = Append(@, NoGediWarning),
                   !.hasCanopyHeight = FALSE]
    ELSE [c EXCEPT !.hasCanopyHeight = TRUE]

\* The GEDI size() query of date d is answered; harmonizeResolution and
\* calculateAGB build their images, the polygon area is requested.
GediReply(d) ==
    LET c == calc[d]
    IN  /\ c.pc = "gedi"
        /\ \E ok \in OkReplies :
             CalcStep(d, [AfterGedi(c, ~ok, c.ground.gediFootprints)
                            EXCEPT !.pc = "area"])
        /\ UNCHANGED initVars
        /\ UNCHANGED callerVars

\* polygon.area() is answered; calculateImageStatistics(agbImage, 'AGB')
\* sends its reduceRegion.
AreaReply(d) ==
    LET c == calc[d]
    IN  /\ c.pc = "area"
        /\ \E ok \in OkReplies :
             CalcStep(d, IF ok THEN [c EXCEPT !.pc = "agbStats"]
                         ELSE FailedCalc(c, RemoteError))
        /\ UNCHANGED initVars
        /\ UNCHANGED callerVars

\* metricsPromises: six bands, and CanopyHeight if hasCanopyHeight.
MetricsBands(hasCanopyHeight) ==
    <<"NDVI", "EVI", "LAI", "VH", "VV", "RVI">>
        \o (IF hasCanopyHeight THEN <<"CanopyHeight">> ELSE << >>)

\* The AGB statistics arrive; the per-band statistics calls are sent
\* together.
AgbStatsReply(d) ==
    LET c == calc[d]
    IN  /\ c.pc = "agbStats"
        /\ \E ok \in OkReplies :
             CalcStep(d,
                IF ok
                THEN [c EXCEPT !.pc = "metrics",
                        !.agbStats = calculateImageStatistics(AgbImage(c), "AGB"),
                        !.outstanding = Len(MetricsBands(c.hasCanopyHeight))]
                ELSE FailedCalc(c, RemoteError))
        /\ UNCHANGED initVars
        /\ UNCHANGED callerVars

\* metricsResults: the statistics in the order of metricsPromises.
MetricsResults(c) ==
    [i \in DOMAIN MetricsBands(c.hasCanopyHeight) |->
        calculateImageStatistics(HarmonizedImage(c),
                                 MetricsBands(c.hasCanopyHeight)[i])]

\* Mutant of WithMetrics: the VH and VV answers change places.
WithMetrics_SwappedRadar(c, metricsResults) ==
    [c EXCEPT !.ndviStats = metricsResults[1], !.eviStats = metricsResults[2],
              !.laiStats = metricsResults[3], !.vhStats = metricsResults[5],
              !.vvStats = metricsResults[4], !.rviStats = metricsResults[6],
              !.chStats = IF c.hasCanopyHeight THEN metricsResults[7] ELSE Null]

\* Lines 491-499: the statistics taken from metricsResults by index.
WithMetrics(c, metricsResults) ==
    [c EXCEPT !.ndviStats = metricsResults[1], !.eviStats = metricsResults[2],
              !.laiStats = metricsResults[3], !.vhStats = metricsResults[4],
              !.vvStats = metricsResults[5], !.rviStats = metricsResults[6],
              !.chStats = IF c.hasCanopyHeight THEN metricsResults[7] ELSE Null]

\* The collection size() calls of lines 502-523 that go to the platform:
\* Sentinel-2, Sentinel-1, and GEDI if hasCanopyHeight.
CountCalls(hasCanopyHeight) == IF hasCanopyHeight THEN 3 ELSE 2

\* One of the per-band statistics calls is answered.  Promise.all rejects
\* on the first failure and resolves with the last answer, in call order.
MetricsReply(d) ==
    LET c == calc[d]
    IN  /\ c.pc = "metrics"
        /\ \E ok \in OkReplies :
             CalcStep(d,
                IF ~ok THEN FailedCalc(c, RemoteError)
                ELSE IF c.outstanding > 1
                THEN [c EXCEPT !.outstanding = @ - 1]
                ELSE [WithMetrics(c, MetricsResults(c))
                        EXCEPT !.pc = "counts",
                               !.outstanding = CountCalls(c.hasCanopyHeight)])
        /\ UNCHANGED initVars
        /\ UNCHANGED callerVars

\* Mutant of WithCounts: the Sentinel-2 collection starts at the target date.
WithCounts_FromTarget(c) ==
    [c EXCEPT !.s2Count = CollectionSize(scenes, c.targetDate, c.endDate),
              !.s1Count = c.ground.s1Images,
              !.gediCount = IF c.hasCanopyHeight
                            THEN c.ground.gediFootprints ELSE 0]

\* [s2Count, s1Count, gediCount]: the sizes of the collections the
\* composites were built from; gediCount is 0 without canopy height.
WithCounts(c) ==
    [c EXCEPT !.s2Count = CollectionSize(scenes, c.startDate, c.endDate),
              !.s1Count = c.ground.s1Images,
              !.gediCount = IF c.hasCanopyHeight
                            THEN c.ground.gediFootprints ELSE 0]

\* One of the size() calls is answered; after the last, getVisualizationUrl
\* sends getMap.
CountsReply(d) ==
    LET c == calc[d]
    IN  /\ c.pc = "counts"
        /\ \E ok \in OkReplies :
             CalcStep(d,
                IF ~ok THEN FailedCalc(c, RemoteError)
                ELSE IF c.outstanding > 1
                THEN [c EXCEPT !.outstanding = @ - 1]
                ELSE [WithCounts(c) EXCEPT !.pc = "url", !.outstanding = 0])
        /\ UNCHANGED initVars
        /\ UNCHANGED callerVars

\* getMap calls back (an error, or no mapId, rejects): calculateAGBForDate
\* returns its result.
UrlReply(d) ==
    LET c == calc[d]
    IN  /\ c.pc = "url"
        /\ \E ok \in OkReplies :
             CalcStep(d, IF ok THEN [c EXCEPT !.pc = "done", !.result = DateResult(c)]
                         ELSE FailedCalc(c, RemoteError))
        /\ UNCHANGED initVars
        /\ UNCHANGED callerVars

\* ------------------------------------- satellite: POST of the statistics route
IdleSat ==
    [pc |-> "idle", ground |-> NoGround, s2Images |-> 0, hasGEDI |-> FALSE,
     stats |-> << >>, outstanding |-> 0, s2Count |-> 0, s1Count |-> 0]

OpticalBands == {"NDVI", "EVI", "LAI"}

\* statsImage (lines 118-124): the optical and radar bands, and CanopyHeight
\* if hasGEDI; optical bands have data only with Sentinel-2 scenes.
StatsImage(s) ==
    [i \in DOMAIN s.ground.pixels |->
        Restrict(s.ground.pixels[i],
                 (IF s.s2Images > 0 THEN OpticalBands ELSE {})
                     \cup {"VV", "VH", "RVI"}
                     \cup (IF s.hasGEDI THEN {"CanopyHeight"} ELSE {}))]

\* The bands of statsImage.
StatsBands(s) ==
    OpticalBands \cup {"VV", "VH", "RVI"}
        \cup (IF s.hasGEDI THEN {"CanopyHeight"} ELSE {})

\* statsImage.reduceRegion(mean, minMax).evaluate
SatStatistics(s) ==
    [b \in StatsBands(s) |-> ReduceRegion(SelectBand(StatsImage(s), b))]

\* Mutant of SatWarnings: an empty Sentinel-1 collection goes unreported.
SatWarnings_NoRadarWarning(s) ==
    (IF ~s.hasGEDI
     THEN <<"GEDI canopy height data not available for this region/time period">>
     ELSE << >>)
    \o (IF s.s2Count = 0 THEN <<"No Sentinel-2 imagery found in date range">>
        ELSE << >>)

\* Lines 159-168.
SatWarnings(s) ==
    (IF ~s.hasGEDI
     THEN <<"GEDI canopy height data not available for this region/time period">>
     ELSE << >>)
    \o (IF s.s2Count = 0 THEN <<"No Sentinel-2 imagery found in date range">>
        ELSE << >>)
    \o (IF s.s1Count = 0 THEN <<"No Sentinel-1 imagery found in date range">>
        ELSE << >>)

\* The success body (lines 172-184); warnings is left out when empty.
SatData(s) ==
    LET base == [statistics |-> s.stats,
                 dataQuality |-> [sentinel2Images |-> s.s2Count,
                                  sentinel1Images |-> s.s1Count,
                                  gediAvailable |-> s.hasGEDI],
                 dateRange |-> [startDate |-> body.startDate,
                                endDate |-> body.endDate]]
    IN  IF Len(SatWarnings(s)) > 0
        THEN [statistics |-> base.statistics, dataQuality |-> base.dataQuality,
              dateRange |-> base.dateRange, warnings |-> SatWarnings(s)]
        ELSE base

\* A step of the handler that leaves it as s2 with response r.
SatStep(s2, r) ==
    /\ sat' = s2
    /\ response' = r
    /\ UNCHANGED <<scenes, endpoint, body, calc, nodeEnv, cls, tile, page>>

\* After ensureInitialized resolved: the collections are built lazily and
\* the GEDI size() query is sent; after it rejected: the 500 response.
SatResume(outcome) ==
    IF outcome = "resolved"
    THEN /\ \E ground \in Grounds, s2Images \in {0, 2} :
              SatStep([sat EXCEPT !.pc = "gedi", !.ground = ground,
                                  !.s2Images = s2Images], response)
         /\ remoteCalled' = TRUE
    ELSE /\ SatStep([sat EXCEPT !.pc = "done"],
                    InternalError(IF outcome = "rejected" THEN ConfigError
                                  ELSE RemoteError))
         /\ UNCHANGED remoteCalled

\* POST up to its first suspension: the 400 response, or ensureInitialized.
SatPost ==
    /\ endpoint = "satellite"
    /\ response.status = 0
    /\ sat.pc = "idle"
    /\ IF Invalid(body)
       THEN /\ SatStep([sat EXCEPT !.pc = "done"], MissingParameters)
            /\ UNCHANGED remoteCalled
            /\ UNCHANGED initVars
       ELSE /\ EnsureInitialized("sat")
            /\ IF EnsureOutcome = "pending"
               THEN /\ SatStep([sat EXCEPT !.pc = "init"], response)
                    /\ UNCHANGED remoteCalled
               ELSE SatResume(EnsureOutcome)
    /\ UNCHANGED callerVars

\* The GEDI size() query is answered (a failure is caught); reduceRegion is
\* sent.
SatGediReply ==
    /\ sat.pc = "gedi"
    /\ \E ok \in OkReplies :
         SatStep([sat EXCEPT !.pc = "stats",
                             !.hasGEDI = ok /\ sat.ground.gediFootprints > 0],
                 response)
    /\ UNCHANGED remoteCalled
    /\ UNCHANGED initVars
    /\ UNCHANGED callerVars

\* reduceRegion is answered; the two size() calls are sent together.
SatStatsReply ==
    /\ sat.pc = "stats"
    /\ \E ok \in OkReplies :
         IF ok
         THEN SatStep([sat EXCEPT !.pc = "counts", !.stats = SatStatistics(sat),
                                  !.outstanding = 2], response)
         ELSE SatStep([sat EXCEPT !.pc = "done"], InternalError(RemoteError))
    /\ UNCHANGED remoteCalled
    /\ UNCHANGED initVars
    /\ UNCHANGED callerVars

\* One of the size() calls is answered; after the last the response is
\* built.
SatCountsReply ==
    /\ sat.pc = "counts"
    /\ \E ok \in OkReplies :
         IF ~ok
         THEN SatStep([sat EXCEPT !.pc = "done"], InternalError(RemoteError))
         ELSE IF sat.outstanding > 1
         THEN SatStep([sat EXCEPT !.outstanding = @ - 1], response)
         ELSE LET s2 == [sat EXCEPT !.pc = "done", !.outstanding = 0,
                                    !.s2Count = sat.s2Images,
                                    !.s1Count = sat.ground.s1Images]
              IN  SatStep(s2, Success(SatData(s2)))
    /\ UNCHANGED remoteCalled
    /\ UNCHANGED initVars
    /\ UNCHANGED callerVars

\* ------------------------------------ classify: POST of the land-cover route
IdleCls ==
    [pc |-> "idle", monthsToTry |-> 0, recentStartStr |-> 0,
     actualMonthsUsed |-> 0, landcover |-> << >>,
     areaStats |-> [empty |-> TRUE], areaStatistics |-> << >>,
     visParams |-> Null]

\* if (!geometry)
MissingGeometry ==
    [status |-> 400,
     error |-> [kind |-> "MissingParameters", names |-> {"geometry"}]]

\* The catch of the handler (lines 369-380): details is error.stack in
\* development mode and undefined (left out of the JSON) otherwise.
ClassifyError(error) ==
    IF nodeEnv = "development"
    THEN [status |-> 500, error |-> error, details |-> error]
    ELSE [status |-> 500, error |-> error]

NoDynamicWorldError ==
    [kind |-> "No Dynamic World data available for this region in the past year"]

\* useDynamicWorld && startDate && endDate
DynamicWorldBranch(b) ==
    b.useDynamicWorld /\ "startDate" \in b.present /\ "endDate" \in b.present

\* testStats && testStats.groups && testStats.groups.length > 0
HasGroups(stats) == "groups" \in DOMAIN stats /\ Len(stats.groups) > 0

\* The class groups the platform may report: class values of both tables
\* and one of neither; sums in 1/10 m2, two of them equal in 1/100 ha.
ClassGroups ==
    {[class |-> 1, sum |-> 123456], [class |-> 40, sum |-> 123449],
     [class |-> 9, sum |-> 2000004]}
GroupLists ==
    {<< >>} \cup {<<g>> : g \in ClassGroups}
        \cup {s \in [1..2 -> ClassGroups] : s[1] # s[2]}
        \cup {s \in [1..3 -> ClassGroups] : \A i, j \in 1..3 : i # j => s[i] # s[j]}

\* What the grouped reduceRegion may answer for an image: an object without
\* groups or with an empty list if no pixel has data, the groups otherwise.
AreaResults(hasData) ==
    IF hasData THEN {[groups |-> g] : g \in GroupLists \ {<< >>}}
    ELSE {[empty |-> TRUE], [groups |-> << >>]}

\* visParams (lines 345-355): the value range and palette handed to
\* getImageUrl.
VisParams(useDynamicWorld) ==
    IF useDynamicWorld
    THEN [min |-> 0, max |-> 8, palette |-> "Dynamic World"]
    ELSE [min |-> 10, max |-> 100, palette |-> "LANDCOVER_COLORS"]

\* The data of the success body (lines 290-333, 359-368).
ClassifyData(c, imageUrl) ==
    [classification |->
        IF DynamicWorldBranch(body)
        THEN [source |-> "Dynamic World AI Classifier",
              classificationDate |-> body.endDate,
              temporalWindow |-> c.actualMonthsUsed,
              dateRange |-> [startDate |-> c.recentStartStr,
                             endDate |-> body.endDate],
              classes |-> DynamicWorldClasses]
        ELSE [source |-> "ESA WorldCover", classes |-> LANDCOVER_CLASSES],
     areaStatistics |-> c.areaStatistics,
     imageUrl |-> imageUrl,
     confidence |-> IF DynamicWorldBranch(body)
                    THEN [method |-> "Temporal ensemble of deep learning predictions"]
                    ELSE Null,
     aiPowered |-> body.useDynamicWorld]

\* A step of the handler that leaves it as c2 with response r.
ClassifyStep(c2, r) ==
    /\ cls' = c2
    /\ response' = r
    /\ UNCHANGED <<scenes, endpoint, body, calc, sat, nodeEnv, tile, page>>

\* Mutant of TryWindow: the window is not widened.
TryWindow_OneMonth(c, monthsToTry) ==
    [c EXCEPT !.pc = "test", !.monthsToTry = monthsToTry,
              !.recentStartStr = SetMonthBack(body.endDate, 1)]

\* One turn of the while loop up to its suspension: the window
\* [endDate - monthsToTry months, endDate) and the area statistics query of
\* its mode image (getDynamicWorldLandCover and calculateAreaStatistics find
\* the session initialized).
TryWindow(c, monthsToTry) ==
    [c EXCEPT !.pc = "test", !.monthsToTry = monthsToTry,
              !.recentStartStr = SetMonthBack(body.endDate, monthsToTry)]

\* After the first ensureInitialized settled (in getDynamicWorldLandCover,
\* or on the WorldCover branch, whose getLandCover is not in the
\* repository, in calculateAreaStatistics at the latest).
ClassifyResume(outcome) ==
    IF outcome = "resolved"
    THEN /\ ClassifyStep(IF DynamicWorldBranch(body) THEN TryWindow(cls, 1)
                         ELSE [cls EXCEPT !.pc = "area"],
                         response)
         /\ remoteCalled' = TRUE
    ELSE /\ ClassifyStep([cls EXCEPT !.pc = "done"],
                         ClassifyError(IF outcome = "rejected" THEN ConfigError
                                       ELSE RemoteError))
         /\ UNCHANGED remoteCalled

\* POST up to its first suspension: the 400 response, or ensureInitialized.
ClassifyPost ==
    /\ endpoint = "classify"
    /\ response.status = 0
    /\ cls.pc = "idle"
    /\ IF "geometry" \notin body.present
       THEN /\ ClassifyStep([cls EXCEPT !.pc = "done"], MissingGeometry)
            /\ UNCHANGED remoteCalled
            /\ UNCHANGED initVars
       ELSE /\ EnsureInitialized("cls")
            /\ IF EnsureOutcome = "pending"
               THEN /\ ClassifyStep([cls EXCEPT !.pc = "init"], response)
                    /\ UNCHANGED remoteCalled
               ELSE ClassifyResume(EnsureOutcome)
    /\ UNCHANGED callerVars

\* The area statistics of a window's mode image arrive: the loop breaks
\* with groups (and the statistics of landcoverImage are requested), goes
\* on to the next window, or ends with the throw after maxMonths.
ClassifyTestReply ==
    /\ cls.pc = "test"
    /\ \E ok \in OkReplies :
         IF ~ok
         THEN ClassifyStep([cls EXCEPT !.pc = "done"], ClassifyError(RemoteError))
         ELSE \E testStats \in
                  AreaResults(CollectionSize(scenes, cls.recentStartStr,
                                             body.endDate) > 0) :
                IF HasGroups(testStats)
                THEN ClassifyStep([cls EXCEPT !.pc = "area",
                                     !.actualMonthsUsed = cls.monthsToTry,
                                     !.landcover = testStats.groups],
                                  response)
                ELSE IF cls.monthsToTry + 1 <= MaxMonths
                THEN ClassifyStep(TryWindow(cls, cls.monthsToTry + 1), response)
                ELSE ClassifyStep([cls EXCEPT !.pc = "done"],
                                  ClassifyError(NoDynamicWorldError))
    /\ UNCHANGED remoteCalled
    /\ UNCHANGED initVars
    /\ UNCHANGED callerVars

\* The area statistics of landcoverImage arrive and are processed;
\* getImageUrl sends getMap.
ClassifyAreaReply ==
    /\ cls.pc = "area"
    /\ \E ok \in OkReplies :
         IF ~ok
         THEN ClassifyStep([cls EXCEPT !.pc = "done"], ClassifyError(RemoteError))
         ELSE \E areaStats \in
                  (IF DynamicWorldBranch(body)
                   THEN {[groups |-> cls.landcover]}
                   ELSE AreaResults(TRUE) \cup AreaResults(FALSE)) :
                ClassifyStep(
                    [cls EXCEPT !.pc = "url", !.areaStats = areaStats,
                       !.visParams = VisParams(body.useDynamicWorld),
                       !.areaStatistics =
                           processAreaStatistics(areaStats,
                               IF DynamicWorldBranch(body)
                               THEN DynamicWorldClasses ELSE LANDCOVER_CLASSES)],
                    response)
    /\ UNCHANGED remoteCalled
    /\ UNCHANGED initVars
    /\ UNCHANGED callerVars

\* What getMap may call back with: an error, no mapId, or a mapId whose
\* urlFormat and url are each a URL or missing (empty).
TileUrls ==
    {base \o tail :
        base \in {<< >>, <<"h">>, <<"h", "/", "m">>},
        tail \in {<< >>, <<"/">>, <<"/", "/">>, <<"/", "{z}">>,
                  <<"/">> \o Template,
                  <<"/", "tiles", "/">> \o Template,
                  <<"/">> \o Template \o <<"?", "k">>}}
MapIds == [urlFormat : TileUrls, url : TileUrls]
MapReplies ==
    {[error |-> TRUE, mapId |-> Null], [error |-> FALSE, mapId |-> Null]}
        \cup {[error |-> FALSE, mapId |-> m] : m \in MapIds}

\* The callbacks seen by the classification request.
ClassifyMapReplies ==
    {r \in MapReplies :
        r.mapId \in {Null,
                     [urlFormat |-> <<"h", "/", "m">>, url |-> << >>],
                     [urlFormat |-> << >>, url |-> <<"h", "/">>],
                     [urlFormat |-> <<"h", "/", "tiles", "/">> \o Template,
                      url |-> <<"h">>]}}

\* getMap calls back: the 500 response or the success body.
ClassifyUrlReply ==
    /\ cls.pc = "url"
    /\ \E reply \in {r \in ClassifyMapReplies : (~r.error) \in OkReplies} :
         LET r == getImageUrl(reply)
         IN  IF "rejected" \in DOMAIN r
             THEN ClassifyStep([cls EXCEPT !.pc = "done"],
                               ClassifyError(IF r.rejected = "error" THEN RemoteError
                                             ELSE [kind |-> r.rejected]))
             ELSE ClassifyStep([cls EXCEPT !.pc = "done"],
                               Success(ClassifyData(cls, r.resolved)))
    /\ UNCHANGED remoteCalled
    /\ UNCHANGED initVars
    /\ UNCHANGED callerVars

\* ------------------------------------------- tile URL functions on their own
IdleTile == [fn |-> "none", reply |-> [error |-> FALSE, mapId |-> Null],
             outcome |-> [rejected |-> "none"]]

\* getVisualizationUrl's getMap callback runs.
VisualizationUrlCallback ==
    /\ tile.fn = "none"
    /\ \E reply \in MapReplies :
         tile' = [fn |-> "getVisualizationUrl", reply |-> reply,
                  outcome |-> getVisualizationUrl(reply)]
    /\ UNCHANGED <<scenes, endpoint, body, response, remoteCalled, calc, sat,
                   nodeEnv, cls, page>>
    /\ UNCHANGED initVars
    /\ UNCHANGED callerVars

\* getImageUrl's getMap callback runs.
ImageUrlCallback ==
    /\ tile.fn = "none"
    /\ \E reply \in MapReplies :
         tile' = [fn |-> "getImageUrl", reply |-> reply,
                  outcome |-> getImageUrl(reply)]
    /\ UNCHANGED <<scenes, endpoint, body, response, remoteCalled, calc, sat,
                   nodeEnv, cls, page>>
    /\ UNCHANGED initVars
    /\ UNCHANGED callerVars

\* ------------------------------------------------------ app/page.tsx: Home
\* The features the user can draw, told apart by their geometry.
Polygons == {[geometry |-> g] : g \in 1..NumPolygons}

\* useState initial values; runs are the analyzePolygon calls made so far,
\* each with the polygon it was called with and the fetch it awaits.
IdlePage == [polygon |-> Null, loading |-> FALSE, satelliteData |-> Null,
             classificationData |-> Null, carbonData |-> Null,
             error |-> Null, runs |-> << >>]

\* The error analyzePolygon throws when a response is not ok.
FetchError ==
    [satellite |-> [message |-> "Failed to fetch satellite data"],
     classify |-> [message |-> "Failed to fetch classification data"],
     carbon |-> [message |-> "Failed to fetch carbon data"]]

\* The data of an ok response: that of the geometry sent in the request.
ResponseData(api, geo) == [api |-> api, geometry |-> geo.geometry]

\* analyzePolygon up to its first await: setLoading(true), setError(null),
\* the satellite request sent.
analyzePolygon(p, geo) ==
    [p EXCEPT !.loading = TRUE,
              !.error = Null,
              !.runs = Append(@, [geo |-> geo, pc |-> "satellite"])]

\* handlePolygonCreated, the map's onPolygonCreated and onPolygonUpdated.
handlePolygonCreated(p, geo) ==
    analyzePolygon([p EXCEPT !.polygon = geo, !.error = Null], geo)

\* analyzePolygon resumed with an ok response of the fetch it awaits: the
\* setter of that fetch, then the next request, or finally after the last.
FetchOk(p, n) ==
    LET run == p.runs[n]
        data == ResponseData(run.pc, run.geo)
    IN  CASE run.pc = "satellite" ->
               [p EXCEPT !.satelliteData = data, !.runs[n].pc = "classify"]
          [] run.pc = "classify" ->
               [p EXCEPT !.classificationData = data, !.runs[n].pc = "carbon"]
          [] run.pc = "carbon" ->
               [p EXCEPT !.carbonData = data, !.loading = FALSE,
                         !.runs[n].pc = "done"]

\* analyzePolygon resumed with a response that is not ok: catch, finally.
FetchFailed(p, n) ==
    [p EXCEPT !.error = FetchError[p.runs[n].pc],
              !.loading = FALSE,
              !.runs[n].pc = "done"]

\* The user draws or edits a polygon on the map.
PolygonCreated(geo) ==
    /\ Len(page.runs) < MaxAnalyses
    /\ page' = handlePolygonCreated(page, geo)
    /\ UNCHANGED <<initVars, callerVars, serverVars>>

\* The Analyze button: disabled={!polygon || loading}.
AnalyzeClick ==
    /\ Len(page.runs) < MaxAnalyses
    /\ page.polygon # Null
    /\ ~page.loading
    /\ page' = analyzePolygon(page, page.polygon)
    /\ UNCHANGED <<initVars, callerVars, serverVars>>

\* The response of the fetch that analysis n awaits arrives.
FetchReply(n) ==
    /\ n \in DOMAIN page.runs
    /\ page.runs[n].pc # "done"
    /\ \E ok \in BOOLEAN :
         page' = IF ok THEN FetchOk(page, n) ELSE FetchFailed(page, n)
    /\ UNCHANGED <<initVars, callerVars, serverVars>>

\* ------------------------------------------ initialization callbacks, tasks
\* calculateAGBForDate resumed after getSentinel2Composite's
\* ensureInitialized settled.
CalcResume(d, outcome) ==
    /\ IF outcome = "resolved"
       THEN \E ground \in GroundsFor(d, calc[d]) :
                CalcStep(d, AfterWindow(calc[d], ground))
       ELSE CalcStep(d, FailedCalc(calc[d], RemoteError))

\* The task waiting for ensureInitialized goes on.
Resume(t, outcome) ==
    CASE t \in Callers ->
            /\ callerPc' = [callerPc EXCEPT ![t] =
                              IF outcome = "resolved" THEN "ok" ELSE "error"]
            /\ UNCHANGED calls
            /\ UNCHANGED requestVars
      [] t = "sat" -> SatResume(outcome) /\ UNCHANGED callerVars
      [] t = "cls" -> ClassifyResume(outcome) /\ UNCHANGED callerVars
      [] OTHER -> CalcResume(t, outcome) /\ UNCHANGED callerVars

\* ee.data.authenticateViaPrivateKey calls back: on success ee.initialize
\* is called, on error the promise rejects.
AuthReply(t) ==
    /\ initPc[t] = "auth"
    /\ \E ok \in BOOLEAN :
         IF ok
         THEN /\ initPc' = [initPc EXCEPT ![t] = "init"]
              /\ UNCHANGED <<callerPc, calls>>
              /\ UNCHANGED requestVars
         ELSE /\ initPc' = [initPc EXCEPT ![t] = "none"]
              /\ Resume(t, "error")
    /\ UNCHANGED <<isInitialized, credentials, attempts>>

\* ee.initialize calls back: success sets the flag and resolves, an error
\* rejects.
InitReply(t) ==
    /\ initPc[t] = "init"
    /\ \E ok \in BOOLEAN :
         /\ isInitialized' = FlagAfterInit(ok)
         /\ Resume(t, IF ok THEN "resolved" ELSE "error")
    /\ initPc' = [initPc EXCEPT ![t] = "none"]
    /\ UNCHANGED <<credentials, attempts>>

\* SpecInit: a caller (a request of any endpoint) calls ensureInitialized.
CallerCall(c) ==
    /\ callerPc[c] \in {"idle", "ok", "configError", "error"}
    /\ calls[c] < MaxCalls
    /\ calls' = [calls EXCEPT ![c] = @ + 1]
    /\ EnsureInitialized(c)
    /\ callerPc' = [callerPc EXCEPT ![c] =
                      CASE EnsureOutcome = "resolved" -> "ok"
                        [] EnsureOutcome = "rejected" -> "configError"
                        [] OTHER -> "waiting"]
    /\ UNCHANGED requestVars

\* ------------------------------------------------------- specifications
\* Days of the request's dates, and days that may hold a Sentinel-2 scene.
TargetDays == {100, 465}
SceneDays == {70, 114, 470, 553}

Bodies ==
    {[present |-> P,
      startDate |-> IF "startDate" \in P THEN s ELSE 0,
      endDate |-> IF "endDate" \in P THEN e ELSE 0] :
        P \in SUBSET RequiredFields, s \in TargetDays, e \in TargetDays}

\* The classification request: end dates 11 April 2023 and 31 March 2024,
\* the start date a month before; useDynamicWorld after its default.
ClassifyEndDays == {100, 455}
ClassifyBodies ==
    {[present |-> P,
      startDate |-> IF "startDate" \in P THEN e - 30 ELSE 0,
      endDate |-> IF "endDate" \in P THEN e ELSE 0,
      useDynamicWorld |-> u] :
        P \in SUBSET RequiredFields, e \in ClassifyEndDays, u \in BOOLEAN}

\* Days that may hold a Dynamic World image over the polygon.
DynamicWorldDays == {80, 95, 300, 440}

\* A process that may have served requests before: the flag is set only
\* with the credentials configured.
Init ==
    /\ isInitialized \in BOOLEAN
    /\ credentials \in {CredentialNames} \cup
           (IF isInitialized THEN {}
            ELSE {CredentialNames \ {n} : n \in CredentialNames})
    /\ initPc = [t \in Tasks |-> "none"]
    /\ attempts = 0
    /\ callerPc = [c \in Callers |-> "idle"]
    /\ calls = [c \in Callers |-> 0]
    /\ \/ /\ endpoint \in {"agb", "satellite"}
          /\ body \in Bodies
          /\ scenes \in SUBSET SceneDays
       \/ /\ endpoint = "classify"
          /\ body \in ClassifyBodies
          /\ scenes \in (IF DynamicWorldBranch(body)
                         THEN SUBSET DynamicWorldDays ELSE {{}})
    /\ response = NoResponse
    /\ remoteCalled = FALSE
    /\ calc = [d \in DateIds |-> IdleCalc]
    /\ sat = IdleSat
    /\ nodeEnv \in NodeEnvs
    /\ cls = IdleCls
    /\ tile = IdleTile
    /\ page = IdlePage

Next ==
    \/ AgbPost
    \/ \E d \in DateIds : SearchReply(d)
    \/ \E d \in DateIds : GediReply(d)
    \/ \E d \in DateIds : AreaReply(d)
    \/ \E d \in DateIds : AgbStatsReply(d)
    \/ \E d \in DateIds : MetricsReply(d)
    \/ \E d \in DateIds : CountsReply(d)
    \/ \E d \in DateIds : UrlReply(d)
    \/ SatPost
    \/ SatGediReply
    \/ SatStatsReply
    \/ SatCountsReply
    \/ ClassifyPost
    \/ ClassifyTestReply
    \/ ClassifyAreaReply
    \/ ClassifyUrlReply
    \/ \E t \in Tasks : AuthReply(t)
    \/ \E t \in Tasks : InitReply(t)

Spec == Init /\ [][Next]_vars

\* A fresh process with concurrent callers of ensureInitialized.
InitInit ==
    /\ isInitialized = FALSE
    /\ credentials \in SUBSET CredentialNames
    /\ initPc = [t \in Tasks |-> "none"]
    /\ attempts = 0
    /\ callerPc = [c \in Callers |-> "idle"]
    /\ calls = [c \in Callers |-> 0]
    /\ scenes = {}
    /\ endpoint = "none"
    /\ body = [present |-> {}, startDate |-> 0, endDate |-> 0]
    /\ response = NoResponse
    /\ remoteCalled = FALSE
    /\ calc = [d \in DateIds |-> IdleCalc]
    /\ sat = IdleSat
    /\ nodeEnv \in NodeEnvs
    /\ cls = IdleCls
    /\ tile = IdleTile
    /\ page = IdlePage

NextInit ==
    \/ \E c \in Callers : CallerCall(c)
    \/ \E c \in Callers : AuthReply(c)
    \/ \E c \in Callers : InitReply(c)

SpecInit == InitInit /\ [][NextInit]_vars

\* One request to the AGB endpoint whose remote calls all call back in the
\* end: each callback that is due is eventually run.
InitAgb ==
    /\ Init
    /\ endpoint = "agb"
    /\ nodeEnv = "production"
    /\ scenes \subseteq {114, 470}

NextAgb ==
    \/ AgbPost
    \/ \E d \in DateIds : SearchReply(d)
    \/ \E d \in DateIds : GediReply(d)
    \/ \E d \in DateIds : AreaReply(d)
    \/ \E d \in DateIds : AgbStatsReply(d)
    \/ \E d \in DateIds : MetricsReply(d)
    \/ \E d \in DateIds : CountsReply(d)
    \/ \E d \in DateIds : UrlReply(d)

CallbacksRun ==
    /\ WF_vars(AgbPost)
    /\ \A d \in DateIds :
          /\ WF_vars(SearchReply(d))
          /\ WF_vars(GediReply(d))
          /\ WF_vars(AreaReply(d))
          /\ WF_vars(AgbStatsReply(d))
          /\ WF_vars(MetricsReply(d))
          /\ WF_vars(CountsReply(d))
          /\ WF_vars(UrlReply(d))

SpecAgbLive == InitAgb /\ [][NextAgb]_vars /\ CallbacksRun

\* The tile URL functions applied to what getMap may call back with.
InitTiles ==
    /\ isInitialized = TRUE
    /\ credentials = CredentialNames
    /\ initPc = [t \in Tasks |-> "none"]
    /\ attempts = 0
    /\ callerPc = [c \in Callers |-> "idle"]
    /\ calls = [c \in Callers |-> 0]
    /\ scenes = {}
    /\ endpoint = "none"
    /\ body = [present |-> {}, startDate |-> 0, endDate |-> 0]
    /\ response = NoResponse
    /\ remoteCalled = FALSE
    /\ calc = [d \in DateIds |-> IdleCalc]
    /\ sat = IdleSat
    /\ nodeEnv \in NodeEnvs
    /\ cls = IdleCls
    /\ tile = IdleTile
    /\ page = IdlePage

NextTiles ==
    \/ VisualizationUrlCallback
    \/ ImageUrlCallback

SpecTiles == InitTiles /\ [][NextTiles]_vars

\* The home page on its own: polygons drawn, analyses started and answered.
InitPage == InitTiles

NextPage ==
    \/ \E geo \in Polygons : PolygonCreated(geo)
    \/ AnalyzeClick
    \/ \E n \in 1..MaxAnalyses : FetchReply(n)

SpecPage == InitPage /\ [][NextPage]_vars

\* ----------------------------------------------------------------- claims
\* C1: concurrent callers of ensureInitialized share one initialization
\* attempt: at no time are two authenticate+initialize sequences in flight.
C1_SingleAttempt == Cardinality(InFlight) <= 1

\* The date computations that returned from findClosestDataWindow.
PastSearch == {"init", "gedi", "area", "agbStats", "metrics", "counts", "url", "done"}

\* C2: a request to the AGB or the statistics endpoint that lacks geometry,
\* startDate or endDate gets no answer but the 400 whose message names the
\* missing field, and neither an initialization attempt nor a remote call
\* is ever made for it.
C2_MissingField400 ==
    (endpoint \in {"agb", "satellite"} /\ body.present # {"geometry", "startDate", "endDate"})
        => /\ response.status \in {0, 400}
           /\ response.status = 400 =>
                /\ response.error.kind = "MissingParameters"
                /\ ({"geometry", "startDate", "endDate"} \ body.present)
                        \subseteq response.error.names
           /\ attempts = 0
           /\ \A t \in Tasks : initPc[t] = "none"
           /\ ~remoteCalled
           /\ \A d \in DateIds : calc[d].pc = "idle"
           /\ sat.pc \in {"idle", "done"}

\* Both endpoints answered such a request: seen on the statistics endpoint
\* with endDate missing.
C2_Witness ==
    /\ endpoint = "satellite"
    /\ body.present = {"geometry", "startDate"}
    /\ response.status = 400
    /\ sat.pc = "done"

\* Scenes of the calendar in [target - days, target + days).
ScenesWithin(target, days) ==
    Cardinality({s \in scenes : target - days <= s /\ s < target + days})

\* C3: the window search tries [target - 7w, target + 7w) for w = 1, 2, ...
\* in increasing order and returns the first window that holds a scene:
\* every narrower window was empty, and the window it returned is the last
\* one it queried.
C3_NarrowestWindow ==
    \A d \in DateIds :
        LET c == calc[d]
        IN  /\ c.pc = "search" =>
                /\ c.weeksWindow >= 1
                /\ \A w \in 1..(c.weeksWindow - 1) : ScenesWithin(c.targetDate, 7 * w) = 0
            /\ c.pc \in PastSearch =>
                /\ c.weeksWindow >= 1
                /\ c.startDate = c.targetDate - 7 * c.weeksWindow
                /\ c.endDate = c.targetDate + 7 * c.weeksWindow
                /\ ScenesWithin(c.targetDate, 7 * c.weeksWindow) > 0
                /\ \A w \in 1..(c.weeksWindow - 1) : ScenesWithin(c.targetDate, 7 * w) = 0

\* A search returned its third window after two empty ones: the scene lies
\* on the end day of the second window, which the window leaves out.
C3_Witness ==
    \E d \in DateIds :
        /\ calc[d].pc \in PastSearch
        /\ calc[d].weeksWindow = 3
        /\ calc[d].targetDate + 14 \in scenes

\* The AGB endpoint answered with its success body.
AgbSuccess == endpoint = "agb" /\ response.status = 200

\* The date computation of d ended with the exhausted window search.
Exhausted(d) == calc[d].pc = "failed" /\ calc[d].error.kind = "NoData"

\* C4 as stated: once the search of either date is exhausted, the response
\* is the 500 whose message carries the bound searched.
C4_ExhaustedCarriesBound ==
    \A d \in DateIds :
        Exhausted(d) =>
            /\ response.status = 500
            /\ response.error.kind = "NoData"
            /\ response.error.months = 3

\* C4, amended: the exhausted search throws the error carrying its target
\* date and the bound 3, after all 12 windows were empty; the response is
\* then a 500 without data, carrying the error of the date computation that
\* failed first: this one, unless the other date failed before it.  No
\* success response exists for a date without a scene within 12 weeks.
C4_ExhaustedFails ==
    /\ \A d \in DateIds :
         Exhausted(d) =>
            /\ calc[d].error.months = 3
            /\ calc[d].error.targetDate =
                    (IF d = "start" THEN body.startDate ELSE body.endDate)
            /\ \A w \in 1..12 : ScenesWithin(calc[d].error.targetDate, 7 * w) = 0
            /\ response.status = 500
            /\ "data" \notin DOMAIN response
            /\ \/ response.error = calc[d].error
               \/ \E o \in DateIds \ {d} :
                    calc[o].pc = "failed" /\ response.error = calc[o].error
    /\ AgbSuccess =>
         /\ ScenesWithin(body.startDate, 84) > 0
         /\ ScenesWithin(body.endDate, 84) > 0

\* The start date's search was exhausted while the end date was still
\* computing, and the response carries its error.
C4_Witness ==
    /\ Exhausted("start")
    /\ calc["end"].pc \in PastSearch
    /\ response.status = 500
    /\ response.error = [kind |-> "NoData", months |-> 3, targetDate |-> body.startDate]

\* The 4-term equation at a pixel, clamped, in milli.
ReducedEquation(px) ==
    LET raw == -150000 + 200 * px.NDVI + 150 * px.EVI - 20 * px.VH + 50 * px.RVI
    IN  IF raw < 0 THEN 0 ELSE IF raw > 500000 THEN 500000 ELSE raw

\* The 5-term equation at a pixel, clamped, in milli.
FullEquation(px) ==
    LET raw == -150000 + 200 * px.NDVI + 150 * px.EVI - 20 * px.VH + 50 * px.RVI
                + 15 * px.CanopyHeight
    IN  IF raw < 0 THEN 0 ELSE IF raw > 500000 THEN 500000 ELSE raw

\* Mean, min and max in centi of an equation over the pixels that have all
\* the bands it reads; zeros when there is no such pixel.
EquationStats(pixels, full) ==
    LET needs == IF full THEN {"NDVI", "EVI", "VH", "RVI", "CanopyHeight"}
                 ELSE {"NDVI", "EVI", "VH", "RVI"}
        valid == SelectSeq(pixels, LAMBDA px : needs \subseteq DOMAIN px)
        vals == [i \in DOMAIN valid |->
                    IF full THEN FullEquation(valid[i]) ELSE ReducedEquation(valid[i])]
        S == {vals[i] : i \in DOMAIN vals}
    IN  IF Len(vals) = 0 THEN [meanAGB |-> 0, minAGB |-> 0, maxAGB |-> 0]
        ELSE [meanAGB |-> RoundDiv(RoundDiv(SumSeq(vals), Len(vals)), 10),
              minAGB |-> RoundDiv(MinOf(S), 10),
              maxAGB |-> RoundDiv(MaxOf(S), 10)]

\* The entry of date d in the success body.
Entry(d) == IF d = "start" THEN response.data.startDate ELSE response.data.endDate

\* C5: in a returned date result, gediFootprints = 0 implies that
\* canopyHeight is null and that the AGB statistics are those of the 4-term
\* equation.
C5_ReducedModel ==
    AgbSuccess =>
        \A d \in DateIds :
            Entry(d).dataQuality.gediFootprints = 0 =>
                /\ Entry(d).inputMetrics.canopyHeight = [null |-> TRUE]
                /\ Entry(d).agb = EquationStats(calc[d].ground.pixels, FALSE)

\* A date result without footprints whose mean is the 4-term value 492.25,
\* where the 5-term equation gives 500.
C5_Witness ==
    /\ AgbSuccess
    /\ \E d \in DateIds :
         /\ Entry(d).dataQuality.gediFootprints = 0
         /\ Entry(d).agb.meanAGB = 49225
         /\ EquationStats(calc[d].ground.pixels, TRUE).meanAGB = 50000

\* C6: in a success response meanAGB, minAGB and maxAGB of both dates lie
\* in [0, 500].
C6_ClampRange ==
    AgbSuccess =>
        \A d \in DateIds :
            /\ Entry(d).agb.meanAGB \in 0..50000
            /\ Entry(d).agb.minAGB \in 0..50000
            /\ Entry(d).agb.maxAGB \in 0..50000

\* A success response with one date clamped at 500 and the other at 0.
C6_Witness ==
    /\ AgbSuccess
    /\ response.data.startDate.agb.maxAGB = 50000
    /\ response.data.endDate.agb.minAGB = 0
    /\ response.data.endDate.dataQuality.sentinel1Images > 0

\* C7: percentChange is 0 when the start date's meanAGB is 0, whatever the
\* end date's, and otherwise (end - start) / start * 100 to 2 decimals.
C7_PercentChange ==
    AgbSuccess =>
        LET s == response.data.startDate.agb.meanAGB
            e == response.data.endDate.agb.meanAGB
        IN  response.data.agbChange.percentChange =
                (IF s = 0 THEN 0 ELSE RoundDiv((e - s) * 10000, s))

\* A success response with a start mean of 0 and an end mean above 0.
C7_Witness ==
    /\ AgbSuccess
    /\ response.data.startDate.agb.meanAGB = 0
    /\ response.data.endDate.agb.meanAGB > 0
    /\ response.data.agbChange.percentChange = 0

\* C8: annualAGBChange is 0 when the end date is not after the start date,
\* and otherwise the change divided by (days / 365.25), to 2 decimals.
C8_AnnualChange ==
    AgbSuccess =>
        LET days == body.endDate - body.startDate
            change == response.data.endDate.agb.meanAGB
                        - response.data.startDate.agb.meanAGB
        IN  /\ response.data.timePeriod.durationDays = days
            /\ response.data.agbChange.annualAGBChange =
                (IF days <= 0 THEN 0 ELSE RoundDiv(change * 36525, days * 100))

\* A success response for an end date before the start date whose biomass
\* changed.
C8_Witness ==
    /\ AgbSuccess
    /\ body.endDate < body.startDate
    /\ response.data.agbChange.meanAGBChange # 0
    /\ response.data.agbChange.annualAGBChange = 0

\* C9: meanAGBChange is the end date's meanAGB minus the start date's of
\* the same response, and status and interpretation follow its sign.
C9_ChangeAndStatus ==
    AgbSuccess =>
        LET ch == response.data.agbChange
            diff == response.data.endDate.agb.meanAGB
                        - response.data.startDate.agb.meanAGB
        IN  /\ ch.meanAGBChange = diff
            /\ (ch.status = "Increase") <=> (diff > 0)
            /\ (ch.status = "Decrease") <=> (diff < 0)
            /\ (ch.status = "No Change") <=> (diff = 0)
            /\ ch.status \in {"Increase", "Decrease", "No Change"}
            /\ ch.interpretation =
                (CASE diff > 0 -> "Forest biomass has increased, indicating growth or afforestation"
                   [] diff < 0 -> "Forest biomass has decreased, indicating degradation or deforestation"
                   [] OTHER -> "No significant change in forest biomass")

\* A success response of two different dates with equal means.
C9_Witness ==
    /\ AgbSuccess
    /\ body.startDate # body.endDate
    /\ response.data.agbChange.status = "No Change"
    /\ response.data.startDate.agb.meanAGB > 0

\* The date computations past the lidar availability check.
PastGedi == {"area", "agbStats", "metrics", "counts", "url", "done"}

\* C10, the state part: after the availability check, no footprints or a
\* failed check mean the reduced model and exactly one warning (with
\* footprints the reduced model is used only after a failed check);
\* footprints reported by the check mean the full model and no warning.
C10_AfterCheck ==
    \A d \in DateIds :
        LET c == calc[d]
        IN  c.pc \in PastGedi =>
              /\ c.ground.gediFootprints = 0 => ~c.hasCanopyHeight
              /\ ~c.hasCanopyHeight =>
                    /\ Len(c.warnings) = 1
                    /\ c.ground.gediFootprints > 0 =>
                         c.warnings = <<GediFailedWarning>>
                    /\ c.pc \in {"metrics", "counts", "url", "done"} =>
                         [meanAGB |-> RoundDiv(c.agbStats.mean, 10),
                          minAGB |-> RoundDiv(c.agbStats.min, 10),
                          maxAGB |-> RoundDiv(c.agbStats.max, 10)]
                            = EquationStats(c.ground.pixels, FALSE)
                    /\ c.pc = "done" => Len(c.result.warnings) = 1
              /\ c.hasCanopyHeight =>
                    /\ c.ground.gediFootprints > 0
                    /\ c.warnings = << >>
                    /\ c.pc \in {"metrics", "counts", "url", "done"} =>
                         [meanAGB |-> RoundDiv(c.agbStats.mean, 10),
                          minAGB |-> RoundDiv(c.agbStats.min, 10),
                          maxAGB |-> RoundDiv(c.agbStats.max, 10)]
                            = EquationStats(c.ground.pixels, TRUE)
                    /\ c.pc = "done" => c.result.warnings = << >>

\* C10, the step part: the answer to the availability check, whatever it
\* is, takes the computation on to its next call and never fails it.
C10_CheckNeverFails ==
    \A d \in DateIds :
        (calc[d].pc = "gedi" /\ calc'[d] # calc[d]) => calc'[d].pc = "area"

\* C10: a lidar availability check that reports zero footprints or fails
\* does not fail the date computation, which completes with the reduced
\* model and exactly one warning; with footprints the full model is used
\* and the warnings list is empty.
C10_LidarOptional == [](C10_AfterCheck) /\ [][C10_CheckNeverFails]_vars

\* A date computation returned its result after a failed availability
\* check although footprints exist.
C10_Witness ==
    \E d \in DateIds :
        /\ calc[d].pc = "done"
        /\ calc[d].ground.gediFootprints > 0
        /\ calc[d].result.warnings = <<"GEDI canopy height data unavailable. AGB calculated without canopy height component.">>
        /\ calc[d].result.inputMetrics.canopyHeight = [null |-> TRUE]

\* The positions at which a date computation waits for the answer to a
\* remote call whose failure is not caught (the lidar check is caught).
RemoteStages == {"search", "area", "agbStats", "metrics", "counts", "url"}

\* C11, the state part: a date computation on which a call failed is over
\* (no call of it is pending) and the request is answered with a 500.
C11_FailureAborts ==
    \A d \in DateIds :
        calc[d].error # Null =>
            /\ calc[d].pc = "failed"
            /\ calc[d].outstanding = 0
            /\ response.status = 500

\* C11, the step part: a failed date computation takes no further step (no
\* call is issued again), and a computation leaves a remote call only for
\* the next stage or for the failure.
C11_NoRetry ==
    \A d \in DateIds :
        /\ calc[d].pc = "failed" => calc'[d] = calc[d]
        /\ (calc[d].pc \in RemoteStages /\ calc'[d].pc = "failed")
              => response'.status = 500

\* C11: no remote call is retried: a failure of the window-size query, the
\* polygon area, the band statistics, the collection counts or the tile
\* URL call ends the date computation, the AGB request is answered with a
\* 500, and the failed call is not issued again.
C11_NoRetryAbort == [](C11_FailureAborts) /\ [][C11_NoRetry]_vars

\* A date computation failed on a remote call after the other date had
\* returned its result, and the request was answered with the 500.
C11_Witness ==
    \E d \in DateIds :
        /\ calc[d].pc = "failed"
        /\ calc[d].error = RemoteError
        /\ \E o \in DateIds : calc[o].pc = "done"
        /\ response.status = 500
        /\ response.error = RemoteError

\* C12: while a credential is missing, initialization contacts nobody and
\* leaves the flag false, and every request that passed validation is
\* answered with the configuration error.
C12_ConfigErrorEverywhere ==
    ~CredentialsConfigured =>
        /\ ~isInitialized
        /\ attempts = 0
        /\ response.status \notin {0, 400} =>
              /\ response.status = 500
              /\ response.error = ConfigError

\* C13, the state part: a success body exists only with both date
\* computations returned and is built from their two results; with a failed
\* date computation the response is the 500 with the error message and the
\* raw error string of a failed date, and it carries no result.
C13_BothOrError ==
    endpoint = "agb" =>
        /\ response.status = 200 =>
              /\ \A d \in DateIds : calc[d].pc = "done"
              /\ response.data.startDate
                    = DateEntry(body.startDate, calc["start"].result)
              /\ response.data.endDate
                    = DateEntry(body.endDate, calc["end"].result)
        /\ (\E d \in DateIds : calc[d].pc = "failed") =>
              /\ response.status = 500
              /\ DOMAIN response = {"status", "error", "details"}
              /\ \E d \in DateIds :
                    /\ calc[d].pc = "failed"
                    /\ response.error = calc[d].error
                    /\ response.details = calc[d].error

\* C13, the step part: the request is answered once.
C13_SingleResponse == response.status # 0 => response' = response

\* C13: the AGB success response is produced only after both concurrent
\* date computations completed; if either fails, the single response is
\* the 500 with the error message and the raw error string, and no result
\* of the other date.
C13_AllOrNothing == [](C13_BothOrError) /\ [][C13_SingleResponse]_vars

\* One date failed and the request was answered 500 while the other date
\* had already returned its result, which the response does not carry.
C13_Witness ==
    /\ endpoint = "agb"
    /\ calc["end"].pc = "failed"
    /\ calc["start"].pc = "done"
    /\ calc["start"].result.meanAGB > 0
    /\ response.status = 500
    /\ "data" \notin DOMAIN response

\* The statistics of a band as the response gives them.
ZeroStats == [mean |-> 0, min |-> 0, max |-> 0]

\* C17: a band without any contributing pixel (an empty Sentinel-1
\* collection leaves VH, VV and RVI without data) is not reported with
\* numeric zero statistics in the date's result.
C17_NoDataNotZero ==
    AgbSuccess =>
        \A d \in DateIds :
            calc[d].result.dataQuality.sentinel1Images = 0 =>
                /\ calc[d].result.inputMetrics.vh # ZeroStats
                /\ calc[d].result.inputMetrics.vv # ZeroStats
                /\ calc[d].result.inputMetrics.rvi # ZeroStats

\* The statistics endpoint answered with its success body.
SatSuccess == endpoint = "satellite" /\ response.status = 200

\* The sensors without data, as the success body counts them.
AbsentSensors(q) ==
    (IF q.sentinel2Images = 0 THEN {"sentinel2"} ELSE {})
        \cup (IF q.sentinel1Images = 0 THEN {"sentinel1"} ELSE {})
        \cup (IF ~q.gediAvailable THEN {"gedi"} ELSE {})

\* C18: the success body of the statistics endpoint carries dataQuality
\* with the two image counts and gediAvailable, one warning per sensor
\* without data, no warnings field exactly when all three sensors have
\* data, and statistics of the CanopyHeight band exactly when gediAvailable.
C18_SatelliteBody ==
    SatSuccess =>
        LET data == response.data
            q == data.dataQuality
        IN  /\ DOMAIN q = {"sentinel2Images", "sentinel1Images", "gediAvailable"}
            /\ q.sentinel2Images = sat.s2Images
            /\ q.sentinel1Images = sat.ground.s1Images
            /\ q.gediAvailable \in BOOLEAN
            /\ q.gediAvailable => sat.ground.gediFootprints > 0
            /\ ("warnings" \in DOMAIN data) <=> (AbsentSensors(q) # {})
            /\ "warnings" \in DOMAIN data =>
                  /\ Len(data.warnings) = Cardinality(AbsentSensors(q))
                  /\ \A i, j \in DOMAIN data.warnings :
                        i # j => data.warnings[i] # data.warnings[j]
            /\ ("CanopyHeight" \in DOMAIN data.statistics) <=> q.gediAvailable

\* A success body with the optical and the lidar sensor absent: two
\* warnings and no CanopyHeight statistics.
C18_Witness ==
    /\ SatSuccess
    /\ response.data.dataQuality.sentinel2Images = 0
    /\ response.data.dataQuality.sentinel1Images > 0
    /\ ~response.data.dataQuality.gediAvailable
    /\ Len(response.data.warnings) = 2

\* The success body without warnings: all three sensors have data.
C18_WitnessAll ==
    /\ SatSuccess
    /\ "warnings" \notin DOMAIN response.data
    /\ "CanopyHeight" \in DOMAIN response.data.statistics

\* The statistics of band b over the harmonized image of a returned date
\* computation, computed from the ground it saw.
BandStats(c, b) ==
    calculateImageStatistics(
        harmonizeResolution(c.ground.pixels, c.result.dataQuality.gediFootprints > 0),
        b)

\* C20: whatever the order in which the concurrent calls completed (the
\* two date computations, and within each the per-band statistics and the
\* collection counts), the success body holds under startDate the result
\* of the start date and under endDate that of the end date, and every
\* band's statistics are in that band's own field.
C20_OrderIndependent ==
    AgbSuccess =>
        /\ response.data.startDate.targetDate = body.startDate
        /\ response.data.endDate.targetDate = body.endDate
        /\ \A d \in DateIds :
             LET c == calc[d]
                 e == Entry(d)
                 m == e.inputMetrics
             IN  /\ c.targetDate = (IF d = "start" THEN body.startDate
                                    ELSE body.endDate)
                 /\ e.actualDataRange = [start |-> c.startDate, end |-> c.endDate]
                 /\ m.ndvi = Fixed3(BandStats(c, "NDVI"))
                 /\ m.evi = Fixed3(BandStats(c, "EVI"))
                 /\ m.lai = Fixed2(BandStats(c, "LAI"))
                 /\ m.vh = Fixed2(BandStats(c, "VH"))
                 /\ m.vv = Fixed2(BandStats(c, "VV"))
                 /\ m.rvi = Fixed3(BandStats(c, "RVI"))
                 /\ m.canopyHeight =
                       (IF e.dataQuality.gediFootprints > 0
                        THEN Fixed2(BandStats(c, "CanopyHeight")) ELSE Null)
                 /\ e.dataQuality.sentinel2Images
                       = CollectionSize(scenes, c.startDate, c.endDate)
                 /\ e.dataQuality.sentinel1Images = c.ground.s1Images

\* A success body of two dates with different windows and different
\* grounds, all seven bands reported for the end date.
C20_Witness ==
    /\ AgbSuccess
    /\ calc["start"].ground = Bare
    /\ calc["end"].ground = Forest
    /\ calc["start"].startDate # calc["end"].startDate
    /\ response.data.endDate.inputMetrics.canopyHeight # Null
    /\ response.data.endDate.inputMetrics.vh # response.data.endDate.inputMetrics.vv

\* The URL holds the whole {z}/{x}/{y} template.
ContainsTemplate(url) ==
    \E i \in 1..(Len(url) - Len(Template) + 1) :
        SubSeq(url, i, i + Len(Template) - 1) = Template

\* The suffix a tile URL function appends.
SuffixOf(fn) ==
    IF fn = "getVisualizationUrl" THEN <<"/">> \o Template
    ELSE <<"/", "tiles", "/">> \o Template

\* C14: a tile URL function that resolves, resolves to a URL containing
\* the {z}/{x}/{y} template: the returned URL unchanged if it contains
\* '{z}', otherwise the URL without one trailing slash followed by the
\* suffix; and normalizing the resolved URL again changes nothing.
C14_TemplateAlways ==
    "resolved" \in DOMAIN tile.outcome =>
        LET returned == UrlOf(tile.reply.mapId)
            url == tile.outcome.resolved
        IN  /\ ContainsTemplate(url)
            /\ IncludesZ(returned) => url = returned
            /\ ~IncludesZ(returned) =>
                  url = DropTrailingSlash(returned) \o SuffixOf(tile.fn)
            /\ NormalizeUrl(url, SuffixOf(tile.fn)) = url

\* The classification endpoint processed the area statistics of its image.
PastArea == cls.pc = "url" \/ (endpoint = "classify" /\ response.status = 200)

\* The class groups of the remote result processAreaStatistics was given.
GroupsOf(stats) == IF "groups" \in DOMAIN stats THEN stats.groups ELSE << >>

\* C15: the list of processAreaStatistics has exactly one entry per class
\* group of the remote result (as many entries as groups, each class of a
\* group in exactly one entry, with that group's area), areaHectares does
\* not increase along the list, and the list is empty without groups.
C15_OnePerGroupSorted ==
    PastArea =>
        LET entries == cls.areaStatistics
            groups == GroupsOf(cls.areaStats)
        IN  /\ Len(entries) = Len(groups)
            /\ \A g \in DOMAIN groups :
                  \E i \in DOMAIN entries :
                      /\ entries[i].class = groups[g].class
                      /\ entries[i].areaSquareMeters = RoundHalfUp(groups[g].sum, 10)
                      /\ entries[i].areaHectares = RoundHalfUp(groups[g].sum, 1000)
                      /\ \A j \in DOMAIN entries :
                            entries[j].class = groups[g].class => j = i
            /\ \A i, j \in DOMAIN entries :
                  i < j => entries[i].areaHectares >= entries[j].areaHectares
            /\ ~HasGroups(cls.areaStats) => entries = << >>

\* Three groups given in ascending order of area came out in descending
\* order, the two of equal hectares in the order given.
C15_Witness ==
    /\ endpoint = "classify"
    /\ response.status = 200
    /\ cls.landcover = <<[class |-> 40, sum |-> 123449],
                         [class |-> 1, sum |-> 123456],
                         [class |-> 9, sum |-> 2000004]>>
    /\ Len(cls.areaStatistics) = 3
    /\ cls.areaStatistics[1].class = 9
    /\ cls.areaStatistics[2].class = 40
    /\ cls.areaStatistics[3].class = 1

\* The WorldCover branch was answered with an empty list: the remote
\* result had no groups.
C15_WitnessEmpty ==
    /\ endpoint = "classify"
    /\ response.status = 200
    /\ "groups" \notin DOMAIN cls.areaStats
    /\ response.data.areaStatistics = << >>

\* The classification request takes the Dynamic World branch.
DynamicWorldRequest ==
    endpoint = "classify" /\ "geometry" \in body.present /\ DynamicWorldBranch(body)

\* The platform holds a Dynamic World image in the window of `months`
\* months that ends (exclusively) at the request's end date.
WindowHasData(months) ==
    \E d \in scenes : SetMonthBack(body.endDate, months) <= d /\ d < body.endDate

\* The loop found its window.
WindowFound == cls.pc \in {"area", "url"} \/ response.status = 200

\* C16, the state part: a window under test is the window of monthsToTry
\* months (1 to 12) ending at endDate, all shorter windows being empty; a
\* found window is the shortest one with data, and the success body
\* reports its months and start date; the 500 of the exhausted loop is
\* given only with all 12 windows empty, and never a success body then.
C16_WindowState ==
    DynamicWorldRequest =>
        /\ cls.monthsToTry \in 0..MaxMonths
        /\ cls.pc = "test" =>
              /\ cls.monthsToTry >= 1
              /\ cls.recentStartStr = SetMonthBack(body.endDate, cls.monthsToTry)
              /\ cls.recentStartStr < body.endDate
              /\ cls.recentStartStr >= body.endDate - 31 * cls.monthsToTry
              /\ cls.recentStartStr <= body.endDate - 28 * cls.monthsToTry
              /\ \A m \in 1..(cls.monthsToTry - 1) : ~WindowHasData(m)
        /\ WindowFound =>
              /\ cls.actualMonthsUsed = cls.monthsToTry
              /\ cls.actualMonthsUsed \in 1..MaxMonths
              /\ WindowHasData(cls.actualMonthsUsed)
              /\ \A m \in 1..(cls.actualMonthsUsed - 1) : ~WindowHasData(m)
              /\ Len(cls.landcover) > 0
        /\ response.status = 200 =>
              /\ response.data.classification.temporalWindow = cls.actualMonthsUsed
              /\ response.data.classification.dateRange
                    = [startDate |-> SetMonthBack(body.endDate, cls.actualMonthsUsed),
                       endDate |-> body.endDate]
              /\ Len(response.data.areaStatistics) > 0
        /\ (\A m \in 1..MaxMonths : ~WindowHasData(m)) => response.status \in {0, 500}
        /\ (response.status = 500 /\ response.error = NoDynamicWorldError) =>
              /\ cls.monthsToTry = MaxMonths
              /\ \A m \in 1..MaxMonths : ~WindowHasData(m)

\* C16, the step part: the windows are tried in the order 1, 2, ..., 12,
\* the next one only after the one before.
C16_InOrder ==
    (DynamicWorldRequest /\ cls'.monthsToTry # cls.monthsToTry)
        => /\ cls'.monthsToTry = cls.monthsToTry + 1
           /\ cls'.monthsToTry <= MaxMonths
           /\ cls'.pc = "test"

\* C16: with useDynamicWorld and both dates, the classification endpoint
\* tries the backward windows [endDate - m months, endDate) for m = 1, 2,
\* ..., 12 in that order, stops at the first with a class group and
\* reports that m and its start date; with all 12 windows empty the
\* request fails with a 500 instead of empty statistics, and no window
\* longer than 12 months is queried.
C16_BackwardWindows == [](C16_WindowState) /\ [][C16_InOrder]_vars

\* A request with end date 31 March 2024 and the only image on 28 October
\* 2023 was answered from the window of 6 months, which starts on
\* 1 October 2023 (31 September).
C16_Witness ==
    /\ DynamicWorldRequest
    /\ body.endDate = 455
    /\ scenes = {300}
    /\ response.status = 200
    /\ response.data.classification.temporalWindow = 6
    /\ response.data.classification.dateRange.startDate = 273

\* All 12 windows were empty and the request failed.
C16_WitnessExhausted ==
    /\ DynamicWorldRequest
    /\ scenes = {80}
    /\ body.endDate = 455
    /\ cls.monthsToTry = 12
    /\ response.status = 500
    /\ response.error = NoDynamicWorldError

\* The request fails the validation of its endpoint.
ValidationFailure ==
    IF endpoint = "classify" THEN "geometry" \notin body.present
    ELSE Invalid(body)

\* C19: an error response of any of the three endpoints has an error
\* field, has a detail field only outside production mode, and has status
\* 400 exactly for a validation failure and 500 otherwise.
C19_ErrorBodies ==
    response.status \notin {0, 200} =>
        /\ response.status \in {400, 500}
        /\ "error" \in DOMAIN response
        /\ "details" \in DOMAIN response => nodeEnv # "production"
        /\ response.status = 400 <=> ValidationFailure

\* What does hold: the error field, the two statuses, and a detail field
\* on the classification endpoint in development mode only.
C19_StatusAndError ==
    response.status \notin {0, 200} =>
        /\ response.status \in {400, 500}
        /\ "error" \in DOMAIN response
        /\ response.status = 400 <=> ValidationFailure
        /\ endpoint = "classify" =>
              ("details" \in DOMAIN response
                  <=> (response.status = 500 /\ nodeEnv = "development"))
        /\ endpoint # "classify" =>
              ("details" \in DOMAIN response <=> response.status = 500)

\* C21, the step part: a response, once produced, is the only one.
C21_OneResponse == response.status # 0 => response' = response

\* C21: with every remote call calling back in the end, a request to the
\* AGB endpoint is eventually answered, with status 200, 400 or 500, and
\* answered once.
C21_EventuallyAnswered ==
    /\ <>(response.status \in {200, 400, 500})
    /\ [](response.status \in {0, 200, 400, 500})
    /\ [][C21_OneResponse]_vars

\* The request was answered with the 500 of one date while the other
\* date's computation was still waiting for a callback.
C21_Witness ==
    /\ endpoint = "agb"
    /\ response.status = 500
    /\ \E d \in DateIds : calc[d].pc \in {"search", "gedi", "area", "agbStats", "metrics", "counts", "url"}

\* C22, the state part: the search of a date has issued weeksWindow
\* queries, never more than 4 * maxMonthsSearch, for windows of at most as
\* many weeks on each side of the target; a returned window of w weeks has
\* monthsUsed = ceil(w / 4), between 1 and maxMonthsSearch.
C22_SearchBound ==
    \A d \in DateIds :
        LET c == calc[d]
        IN  /\ c.pc = "search" =>
                 c.weeksWindow \in 1..(4 * MaxMonthsSearch)
            /\ c.pc \in PastSearch =>
                 /\ c.weeksWindow \in 1..(4 * MaxMonthsSearch)
                 /\ c.startDate = c.targetDate - 7 * c.weeksWindow
                 /\ c.endDate = c.targetDate + 7 * c.weeksWindow
                 /\ c.endDate - c.startDate <= 2 * 7 * 4 * MaxMonthsSearch
                 /\ 4 * c.monthsUsed >= c.weeksWindow
                 /\ 4 * (c.monthsUsed - 1) < c.weeksWindow
                 /\ c.monthsUsed \in 1..MaxMonthsSearch

\* C22, the step part: each query of the search is for the window one
\* week wider than the one before.
C22_OneWeekWider ==
    \A d \in DateIds :
        (calc[d].pc = "search" /\ calc'[d].pc = "search")
            => calc'[d].weeksWindow \in {calc[d].weeksWindow, calc[d].weeksWindow + 1}

\* C22: findClosestDataWindow issues at most 4 * maxMonthsSearch
\* availability queries, none for a window wider than 4 * maxMonthsSearch
\* weeks on each side, and reports monthsUsed = ceil(w / 4) for the week
\* count w returned, so that 1 <= monthsUsed <= maxMonthsSearch.
C22_QueriesAndMonths == [](C22_SearchBound) /\ [][C22_OneWeekWider]_vars

\* A date result from a window of 5 weeks, reported as 2 months.
C22_Witness ==
    \E d \in DateIds :
        /\ calc[d].pc = "done"
        /\ calc[d].weeksWindow = 5
        /\ calc[d].monthsUsed = 2
        /\ calc[d].result.actualDateRange.end - calc[d].result.actualDateRange.start = 70

\* The bands with data somewhere in an image.
BandsOf(image) == UNION {DOMAIN image[i] : i \in DOMAIN image}

\* The lidar availability check of a date measured footprints: it did not
\* fail, and the window holds some.
MeasuredFootprints(c) ==
    c.ground.gediFootprints > 0 /\ GediFailedWarning \notin {c.warnings[i] : i \in DOMAIN c.warnings}

\* C23: past the availability check of a date, the harmonized image has
\* the CanopyHeight band iff the check measured footprints; the 5-term
\* equation is used iff the band is there, the 4-term one otherwise;
\* CanopyHeight statistics are requested and reported iff the band is
\* there; no band is read that the image lacks, and canopy height is null,
\* not a number, without the band.
C23_BandIffFootprints ==
    \A d \in DateIds :
        LET c == calc[d]
            image == HarmonizedImage(c)
            present == "CanopyHeight" \in BandsOf(image)
            requested == {MetricsBands(c.hasCanopyHeight)[i] :
                            i \in DOMAIN MetricsBands(c.hasCanopyHeight)}
        IN  c.pc \in PastGedi =>
              /\ present <=> MeasuredFootprints(c)
              /\ present <=> c.hasCanopyHeight
              /\ "CanopyHeight" \in RegressionBands(c.hasCanopyHeight) <=> present
              /\ "CanopyHeight" \in requested <=> present
              /\ present => \A b \in requested \cup RegressionBands(c.hasCanopyHeight) :
                               b \in {"NDVI", "EVI", "LAI", "VV", "VH", "RVI", "CanopyHeight"}
              /\ ~present => \A b \in requested \cup RegressionBands(c.hasCanopyHeight) :
                               b \in {"NDVI", "EVI", "LAI", "VV", "VH", "RVI"}
              /\ c.pc \in {"metrics", "counts", "url", "done"} =>
                    [meanAGB |-> RoundDiv(c.agbStats.mean, 10),
                     minAGB |-> RoundDiv(c.agbStats.min, 10),
                     maxAGB |-> RoundDiv(c.agbStats.max, 10)]
                        = EquationStats(c.ground.pixels, present)
              /\ c.pc \in {"counts", "url", "done"} => (c.chStats = Null <=> ~present)
              /\ c.pc = "done" =>
                    (c.result.inputMetrics.canopyHeight = Null <=> ~present)

\* A date for which footprints exist but the availability check failed
\* reached its statistics without the band; the other date has the band.
C23_Witness ==
    /\ calc["start"].pc = "counts"
    /\ calc["start"].ground.gediFootprints > 0
    /\ ~calc["start"].hasCanopyHeight
    /\ calc["start"].chStats = Null
    /\ calc["end"].pc = "done"
    /\ calc["end"].hasCanopyHeight
    /\ calc["end"].result.inputMetrics.canopyHeight # Null

\* A qualifying scene lies within `months` calendar months before or
\* after the target date.
SceneWithinMonths(target, months) ==
    \E s \in scenes :
        SetMonthBack(target, months) <= s /\ s <= SetMonthBack(target, -months)

\* C24: the search of a date throws its 'No satellite data found within 3
\* months' error only when no qualifying scene lies within 3 calendar
\* months of the target date.
C24_ThrowsOnlyWithoutScene ==
    \A d \in DateIds :
        Exhausted(d) => ~SceneWithinMonths(calc[d].targetDate, MaxMonthsSearch)

\* C25: a remote-service call is issued for a request only with the Earth
\* Engine session initialized.
C25_InitBeforeRemote == remoteCalled => isInitialized

\* What does hold: the statistics and the classification endpoint issue
\* their first remote call behind a completed ensureInitialized.
C25_GuardedEndpoints ==
    (endpoint \in {"satellite", "classify"} /\ remoteCalled) => isInitialized

\* C26, the step: with the response of an AGB request produced, a date
\* computation does nothing but take the callback of a call issued before
\* and end; it issues no call.
C26_QuietAfterResponse ==
    (endpoint = "agb" /\ response.status # 0) =>
        \A d \in DateIds :
            \/ calc'[d] = calc[d]
            \/ calc'[d].pc \in {"failed", "done"}

\* C26: once an AGB request has produced its response, no further remote
\* call is issued on its behalf; after the 500 for one date's failure the
\* other date's computation issues no more remote calls.
C26_NoCallsAfterResponse == [][C26_QuietAfterResponse]_vars

\* C27: in a success body, each date's sentinel2Images is at least 1 and
\* is the number of qualifying scenes in the window the search returned,
\* and actualDataRange and temporalRange are that window.
C27_ConfirmedWindow ==
    AgbSuccess =>
        \A d \in DateIds :
            LET c == calc[d]
                e == Entry(d)
                start == c.targetDate - 7 * c.weeksWindow
                end == c.targetDate + 7 * c.weeksWindow
            IN  /\ e.dataQuality.sentinel2Images >= 1
                /\ e.dataQuality.sentinel2Images
                      = Cardinality({s \in scenes : start <= s /\ s < end})
                /\ e.actualDataRange = [start |-> start, end |-> end]
                /\ e.dataQuality.temporalRange = <<start, end>>
                /\ \A w \in 1..(c.weeksWindow - 1) :
                      ~\E s \in scenes :
                          c.targetDate - 7 * w <= s /\ s < c.targetDate + 7 * w

\* A success body whose end date found its only scene after the target
\* date, in a window of one week, and whose start date needed five weeks.
C27_Witness ==
    /\ AgbSuccess
    /\ scenes = {70, 470}
    /\ body.startDate = 100
    /\ body.endDate = 465
    /\ response.data.endDate.dataQuality.sentinel2Images = 1
    /\ response.data.endDate.actualDataRange = [start |-> 458, end |-> 472]
    /\ response.data.startDate.actualDataRange = [start |-> 65, end |-> 135]

\* The classification endpoint answered with its success body.
ClassifySuccess == endpoint = "classify" /\ response.status = 200

\* The branch that produced the image, as the success body names it.
DynamicWorldRan == response.data.classification.source = "Dynamic World AI Classifier"

\* C28: in a success body of the classification endpoint, aiPowered is
\* true and the image is drawn with the 0-8 Dynamic World range and
\* palette iff the Dynamic World branch produced it, and with the 10-100
\* WorldCover range and palette iff the WorldCover branch did.
C28_FlagMatchesBranch ==
    ClassifySuccess =>
        /\ DynamicWorldRan <=> DynamicWorldBranch(body)
        /\ response.data.aiPowered <=> DynamicWorldRan
        /\ (cls.visParams.min = 0 /\ cls.visParams.max = 8
                /\ cls.visParams.palette = "Dynamic World") <=> DynamicWorldRan
        /\ (cls.visParams.min = 10 /\ cls.visParams.max = 100
                /\ cls.visParams.palette = "LANDCOVER_COLORS") <=> ~DynamicWorldRan

\* C29, the state part: the flag is true only with the credentials
\* configured and after an attempt was started.
C29_FlagFaithful == isInitialized => (CredentialsConfigured /\ attempts >= 1)

\* C29, the step part: the flag never goes back to false; it becomes true
\* only in the step in which ee.initialize reports success to an attempt;
\* the failure of an attempt does not change it; an ensureInitialized call
\* starts an attempt exactly if the flag is false (and the credentials are
\* configured), so never once the flag is true.
C29_FlagSteps ==
    /\ isInitialized => isInitialized'
    /\ (~isInitialized /\ isInitialized') =>
          \E t \in Tasks :
              /\ initPc[t] = "init"
              /\ initPc'[t] = "none"
              /\ t \in Callers => callerPc'[t] = "ok"
    /\ \A c \in Callers :
          /\ (callerPc[c] = "waiting" /\ callerPc'[c] = "error") =>
                isInitialized' = isInitialized
          /\ calls'[c] # calls[c] =>
                /\ isInitialized => (attempts' = attempts /\ callerPc'[c] = "ok")
                /\ (~isInitialized /\ CredentialsConfigured) =>
                      (attempts' = attempts + 1 /\ callerPc'[c] = "waiting")
                /\ (~isInitialized /\ ~CredentialsConfigured) =>
                      (attempts' = attempts /\ callerPc'[c] = "configError")

\* C29: the initialized flag becomes true only after the platform reported
\* a successful initialization and never returns to false; a failed
\* attempt leaves it as it is, so that with the flag false a later
\* ensureInitialized call starts a fresh attempt; once the flag is true no
\* ensureInitialized call starts an attempt.
C29_MonotonicFlag == [](C29_FlagFaithful) /\ [][C29_FlagSteps]_vars

\* A caller's first attempt failed and left the flag false; its second
\* call started a fresh attempt, which set the flag.
C29_Witness ==
    \E c \in Callers :
        /\ calls[c] = 2
        /\ callerPc[c] = "ok"
        /\ attempts = 2
        /\ isInitialized
        /\ \A o \in Callers \ {c} : calls[o] = 0

\* The analyses of the home page that still await a response.
AnalysesInFlight == {n \in DOMAIN page.runs : page.runs[n].pc # "done"}

\* The data the home page displays.
DisplayedData ==
    {page.satelliteData, page.classificationData, page.carbonData} \ {Null}

\* C30: on the home page loading is true whenever an analysis is in
\* flight, and once no analysis is in flight (and none ended in an error)
\* the satellite, classification and carbon data displayed all belong to
\* the polygon submitted last.
C30_LatestPolygonShown ==
    /\ AnalysesInFlight # {} => page.loading
    /\ (AnalysesInFlight = {} /\ page.polygon # Null /\ page.error = Null) =>
          \A d \in DisplayedData : d.geometry = page.polygon.geometry

====
